---------------------------- MODULE Spec2Model ----------------------------
(***************************************************************************)
(* Model of converter.js: the Yamaha PPF -> encrypted CPI converter.       *)
(*                                                                         *)
(* Byte buffers (Uint8Array) are sequences of integers 0..255; the JS      *)
(* offset o is the sequence index o + 1.  32-bit integers of the DES core  *)
(* are sequences of 32 bits, most significant bit first, so that <<, >>>,  *)
(* &, | and ^ keep their 32-bit width.  Strings are sequences of Unicode   *)
(* code points.                                                            *)
(***************************************************************************)
EXTENDS Integers, Sequences, FiniteSets, TLC

VARIABLES
  data, padded,                  \* addYamahaPadding: argument, result
  pieces,                        \* the records and filler the caller's container is made of
  buf, startOffset, endOffset,   \* readChunks: arguments
  pos, chunks, pc,               \* readChunks: locals, and where the call stands
  block, keyBytes, cipher, plain,  \* DES block cipher: block, key, results
  packData, modelName, packInstallId, deviceFullId,  \* buildEncryptedCPI: arguments
  firstData,                     \* the bytes crypto.getRandomValues drew in the last call
  cpi,                           \* buildEncryptedCPI: outcome of the last call
  parsed,                        \* parsePPFRaw: result of the last call
  lockCalls,                     \* the generateLockedCSEC calls made so far, with outcomes
  kdInput, kdOutput,             \* keyDerivation: argument, result
  calls,                         \* the calls a page made so far, of any function, with results
  DES_IV                         \* the module-scope buffer DES_IV

vars == <<data, padded, pieces, buf, startOffset, endOffset, pos, chunks, pc,
          block, keyBytes, cipher, plain,
          packData, modelName, packInstallId, deviceFullId, firstData, cpi, parsed,
          lockCalls, kdInput, kdOutput, calls, DES_IV>>

padVars  == <<data, padded>>
scanVars == <<pieces, buf, startOffset, endOffset, pos, chunks, pc>>
desVars  == <<block, keyBytes, cipher, plain>>
cpiVars  == <<packData, modelName, packInstallId, deviceFullId, firstData, cpi, parsed>>
lockVars == <<lockCalls>>
keyVars  == <<kdInput, kdOutput>>
callVars == <<calls>>

-----------------------------------------------------------------------------
(* Bit-level arithmetic of JS 32-bit integers. *)

Pow2(n) == 2 ^ n

\* a sequence given by a function constructor, as an explicit tuple of its values
Vec(f) == f \o <<>>

\* the element of a one-element set: Only({e : x \in {v}}) is e with x standing
\* for v, a value computed once however often e uses it
Only(S) == CHOOSE x \in S : TRUE

\* the w-bit two's complement pattern of the natural number n, MSB first
Bits(n, w) == Vec([i \in 1..w |-> (n \div Pow2(w - i)) % 2])

\* a 32-bit literal 0xHHHHLLLL given as its two 16-bit halves
Word32(hi, lo) == Bits(hi, 16) \o Bits(lo, 16)

RECURSIVE BitsValue(_)
\* the natural number a bit pattern (MSB first, at most 31 bits) denotes
BitsValue(b) ==
  IF b = <<>> THEN 0 ELSE 2 * BitsValue(SubSeq(b, 1, Len(b) - 1)) + b[Len(b)]

Xor(a, b) == Vec([i \in 1..Len(a) |-> IF a[i] = b[i] THEN 0 ELSE 1])       \* a ^ b
And(a, b) == Vec([i \in 1..Len(a) |-> IF a[i] = 1 /\ b[i] = 1 THEN 1 ELSE 0]) \* a & b
Or(a, b)  == Vec([i \in 1..Len(a) |-> IF a[i] = 1 \/ b[i] = 1 THEN 1 ELSE 0]) \* a | b
Shl(a, n) == Vec([i \in 1..Len(a) |-> IF i + n <= Len(a) THEN a[i + n] ELSE 0]) \* a << n
Shr(a, n) == Vec([i \in 1..Len(a) |-> IF i - n >= 1 THEN a[i - n] ELSE 0])     \* a >>> n

\* bit at JS position p (0 = least significant) of a 32-bit word
BitAt(a, p) == a[32 - p]

-----------------------------------------------------------------------------
(* Chunk tags: 4-character strings, written as their code points. *)

XPFH == <<88, 80, 70, 72>>
XPIH == <<88, 80, 73, 72>>
XMDL == <<88, 77, 68, 76>>
XPID == <<88, 80, 73, 68>>
EUID == <<69, 85, 73, 68>>
ETIT == <<69, 84, 73, 84>>
BLOB == <<66, 76, 79, 66>>
EEXT == <<69, 69, 88, 84>>
EICO == <<69, 73, 67, 79>>
FBIN == <<70, 66, 73, 78>>
CSEC == <<67, 83, 69, 67>>
\* tags generateLockedCSEC writes inside the CSEC plaintext
ABCF == <<65, 66, 67, 70>>
AIRI == <<65, 73, 82, 73>>
AIVF == <<65, 73, 86, 70>>
ABEI == <<65, 66, 69, 73>>

\* mutant: the four tags of the CSEC plaintext are recognized too
KNOWN_TAGS_withCsecPlaintext ==
  {XPFH, XPIH, XMDL, XPID, EUID, ETIT, BLOB, EEXT, EICO, FBIN, CSEC, ABCF, AIRI, AIVF, ABEI}

KNOWN_TAGS == {XPFH, XPIH, XMDL, XPID, EUID, ETIT, BLOB, EEXT, EICO, FBIN, CSEC}

\* JS values that are no string and no number
Undefined == <<-2>>
Null      == <<-1>>

-----------------------------------------------------------------------------
(* Text codecs: TextDecoder('ascii'), TextDecoder('utf-8'), TextEncoder. *)

\* The label 'ascii' selects windows-1252: bytes 0x00-0x7F and 0xA0-0xFF decode
\* to the code point of the same number, 0x80-0x9F by this table.
Windows1252High ==
  <<\h20AC, \h0081, \h201A, \h0192, \h201E, \h2026, \h2020, \h2021,
    \h02C6, \h2030, \h0160, \h2039, \h0152, \h008D, \h017D, \h008F,
    \h0090, \h2018, \h2019, \h201C, \h201D, \h2022, \h2013, \h2014,
    \h02DC, \h2122, \h0161, \h203A, \h0153, \h009D, \h017E, \h0178>>

textDecoder_decode(bytes) ==
  Vec([i \in 1..Len(bytes) |->
         IF bytes[i] >= 128 /\ bytes[i] < 160 THEN Windows1252High[bytes[i] - 127]
         ELSE bytes[i]])

\* UTF-8 of one code point; a string is the sequence of its code points, and
\* a surrogate standing alone in it is encoded as U+FFFD
Utf8OfCodePoint(c) ==
  IF c < 128 THEN <<c>>
  ELSE IF c < 2048 THEN <<192 + (c \div 64), 128 + (c % 64)>>
  ELSE IF c >= \hD800 /\ c < \hE000 THEN <<\hEF, \hBF, \hBD>>
  ELSE IF c < 65536 THEN <<224 + (c \div 4096), 128 + ((c \div 64) % 64), 128 + (c % 64)>>
  ELSE <<240 + (c \div 262144), 128 + ((c \div 4096) % 64),
         128 + ((c \div 64) % 64), 128 + (c % 64)>>

RECURSIVE textEncoder_encode(_)
textEncoder_encode(text) ==
  IF text = <<>> THEN <<>>
  ELSE Utf8OfCodePoint(Head(text)) \o textEncoder_encode(Tail(text))

IsCont(bytes, i) == i <= Len(bytes) /\ bytes[i] >= 128 /\ bytes[i] < 192

RECURSIVE Utf8Decode(_, _)
\* the code points of bytes[i..]; an ill-formed sequence decodes to U+FFFD
Utf8Decode(bytes, i) ==
  IF i > Len(bytes) THEN <<>>
  ELSE LET b == bytes[i] IN
    IF b < 128 THEN <<b>> \o Utf8Decode(bytes, i + 1)
    ELSE IF b >= 194 /\ b < 224 /\ IsCont(bytes, i + 1)
      THEN <<(b - 192) * 64 + (bytes[i + 1] - 128)>> \o Utf8Decode(bytes, i + 2)
    ELSE IF /\ b >= 224 /\ b < 240 /\ IsCont(bytes, i + 1) /\ IsCont(bytes, i + 2)
            /\ (b = 224 => bytes[i + 1] >= 160)
            /\ (b = 237 => bytes[i + 1] < 160)
      THEN <<(b - 224) * 4096 + (bytes[i + 1] - 128) * 64 + (bytes[i + 2] - 128)>>
           \o Utf8Decode(bytes, i + 3)
    ELSE IF /\ b >= 240 /\ b < 245
            /\ IsCont(bytes, i + 1) /\ IsCont(bytes, i + 2) /\ IsCont(bytes, i + 3)
            /\ (b = 240 => bytes[i + 1] >= 144)
            /\ (b = 244 => bytes[i + 1] < 144)
      THEN <<(b - 240) * 262144 + (bytes[i + 1] - 128) * 4096
             + (bytes[i + 2] - 128) * 64 + (bytes[i + 3] - 128)>>
           \o Utf8Decode(bytes, i + 4)
    ELSE <<\hFFFD>> \o Utf8Decode(bytes, i + 1)

\* TextDecoder('utf-8').decode: a leading byte order mark is dropped
utf8Decoder_decode(bytes) ==
  LET t == Utf8Decode(bytes, 1)
  IN  IF t # <<>> /\ t[1] = \hFEFF THEN Tail(t) ELSE t

\* String.prototype.replace(/\x00/g, '')
RECURSIVE StripNul(_)
StripNul(text) ==
  IF text = <<>> THEN <<>>
  ELSE IF Head(text) = 0 THEN StripNul(Tail(text))
  ELSE <<Head(text)>> \o StripNul(Tail(text))

-----------------------------------------------------------------------------
(* Chunk reader *)

\* buf.slice(a, b) for 0 <= a: the bytes at offsets a .. min(b, length) - 1
Slice(b, from, to) == SubSeq(b, from + 1, IF to < Len(b) THEN to ELSE Len(b))

readFourCC(b, offset) == textDecoder_decode(Slice(b, offset, offset + 4))

\* An unsigned 32-bit number is the record of its 16-bit halves, since the
\* checker's integers end at 2^31 - 1.
U32(n) == [hi |-> (n \div 65536) % 65536, lo |-> n % 65536]

readUint32BE(b, offset) ==
  [hi |-> b[offset + 1] * 256 + b[offset + 2], lo |-> b[offset + 3] * 256 + b[offset + 4]]

\* the four bytes writeUint32BE stores for value
writeUint32BE(value) ==
  <<value.hi \div 256, value.hi % 256, value.lo \div 256, value.lo % 256>>

isKnownTag(b, p) ==
  IF p + 4 > Len(b) THEN FALSE ELSE readFourCC(b, p) \in KNOWN_TAGS

\* mutant: no byte is skipped
skipToNextTag_noSkip(b, p, end) == p

RECURSIVE skipToNextTag(_, _, _)
skipToNextTag(b, p, end) ==
  IF p < end
    THEN IF isKnownTag(b, p) THEN p ELSE skipToNextTag(b, p + 1, end)
    ELSE p

\* Math.min(dataStart + size, end), for dataStart <= end < 2^31
MinDataEnd(dataStart, size, end) ==
  IF size.hi >= 32768 \/ size.hi * 65536 + size.lo > end - dataStart
    THEN end
    ELSE dataStart + (size.hi * 65536 + size.lo)

\* an omitted endOffset argument (undefined where a number is expected)
NoOffset == -1

\* mutant: the window end is ignored and the scan runs to the end of the buffer
EndOf_wholeBuffer(b, endOff) == Len(b)

\* endOffset ?? buf.length
EndOf(b, endOff) == IF endOff = NoOffset THEN Len(b) ELSE endOff

\* One pass through the body of the while loop of readChunks, entered with
\* p + 8 <= end: the locals after it, and whether the loop was left by break.
readChunksBody(b, end, p, cs) ==
  LET p1 == skipToNextTag(b, p, end) IN
    IF p1 + 8 > end THEN [pos |-> p1, chunks |-> cs, brk |-> TRUE]
    ELSE LET id == readFourCC(b, p1) IN
      IF id \notin KNOWN_TAGS THEN [pos |-> p1, chunks |-> cs, brk |-> TRUE]
      ELSE LET size      == readUint32BE(b, p1 + 4)
               dataStart == p1 + 8
               dataEnd   == MinDataEnd(dataStart, size, end)
           IN  [pos    |-> dataEnd,
                chunks |-> Append(cs, [id |-> id, size |-> size,
                                       data |-> Slice(b, dataStart, dataEnd),
                                       offset |-> p1]),
                brk    |-> FALSE]

RECURSIVE ReadChunksLoop(_, _, _, _)
\* the while loop of readChunks run to its end
ReadChunksLoop(b, end, p, cs) ==
  IF p + 8 <= end
    THEN LET s == readChunksBody(b, end, p, cs)
         IN  IF s.brk THEN s.chunks ELSE ReadChunksLoop(b, end, s.pos, s.chunks)
    ELSE cs

readChunks(b, startOff, endOff) == ReadChunksLoop(b, EndOf(b, endOff), startOff, <<>>)

readSubChunks(chunk) == readChunks(chunk.data, 0, NoOffset)

\* mutant: the NUL bytes are left in the text
chunkText_keepNul(chunk) == utf8Decoder_decode(chunk.data)

chunkText(chunk) == StripNul(utf8Decoder_decode(chunk.data))

-----------------------------------------------------------------------------
(* Chunk builder *)

RECURSIVE concatArrays(_)
concatArrays(arrays) ==
  IF arrays = <<>> THEN <<>> ELSE Head(arrays) \o concatArrays(Tail(arrays))

\* mutant: the length field counts the 8 bytes of the header too
buildChunk_lengthWithHeader(id, d) ==
  Slice(textEncoder_encode(id), 0, 4) \o writeUint32BE(U32(8 + Len(d))) \o d

buildChunk(id, d) ==
  Slice(textEncoder_encode(id), 0, 4) \o writeUint32BE(U32(Len(d))) \o d

buildContainerChunk(id, subChunks) == buildChunk(id, concatArrays(subChunks))

buildTextChunk(id, text) == buildChunk(id, textEncoder_encode(text \o <<0>>))

-----------------------------------------------------------------------------
(* Parsers *)

EmptyEntry == [uid |-> <<>>, title |-> <<>>, extension |-> <<>>,
               iconCode |-> Null, binaryData |-> <<>>]

RECURSIVE ParseBlobSubs(_, _, _)
\* the loop over the sub-chunks of one BLOB, from index i on
ParseBlobSubs(sub, i, entry) ==
  IF i > Len(sub) THEN entry
  ELSE LET c == sub[i] IN
    ParseBlobSubs(sub, i + 1,
      IF c.id = EUID THEN [entry EXCEPT !.uid = chunkText(c)]
      ELSE IF c.id = ETIT THEN [entry EXCEPT !.title = chunkText(c)]
      ELSE IF c.id = EEXT THEN [entry EXCEPT !.extension = chunkText(c)]
      ELSE IF c.id = EICO THEN [entry EXCEPT !.iconCode = chunkText(c)]
      ELSE IF c.id = FBIN THEN [entry EXCEPT !.binaryData = c.data]
      ELSE entry)

RECURSIVE ParseTop(_, _, _)
\* the loop over the top-level chunks, from index i on; !uid and !title are
\* true of the empty string
ParseTop(cs, i, pack) ==
  IF i > Len(cs) THEN pack
  ELSE LET c == cs[i] IN
    ParseTop(cs, i + 1,
      IF c.id = EUID /\ pack.uid = <<>> THEN [pack EXCEPT !.uid = chunkText(c)]
      ELSE IF c.id = ETIT /\ pack.title = <<>> THEN [pack EXCEPT !.title = chunkText(c)]
      ELSE IF c.id = BLOB
        THEN [pack EXCEPT !.blobs = Append(@, ParseBlobSubs(readSubChunks(c), 1, EmptyEntry))]
      ELSE pack)

parsePPFRaw(b) ==
  ParseTop(readChunks(b, 8, NoOffset), 1, [uid |-> <<>>, title |-> <<>>, blobs |-> <<>>])

-----------------------------------------------------------------------------
(* Pre-computed SP-boxes, each entry 0xHHHHLLLL written <<0xHHHH, 0xLLLL>>. *)

SP1 ==
  <<
  <<\h0080,\h8200>>, <<\h0000,\h0000>>, <<\h0000,\h8000>>, <<\h0080,\h8202>>,
  <<\h0080,\h8002>>, <<\h0000,\h8202>>, <<\h0000,\h0002>>, <<\h0000,\h8000>>,
  <<\h0000,\h0200>>, <<\h0080,\h8200>>, <<\h0080,\h8202>>, <<\h0000,\h0200>>,
  <<\h0080,\h0202>>, <<\h0080,\h8002>>, <<\h0080,\h0000>>, <<\h0000,\h0002>>,
  <<\h0000,\h0202>>, <<\h0080,\h0200>>, <<\h0080,\h0200>>, <<\h0000,\h8200>>,
  <<\h0000,\h8200>>, <<\h0080,\h8000>>, <<\h0080,\h8000>>, <<\h0080,\h0202>>,
  <<\h0000,\h8002>>, <<\h0080,\h0002>>, <<\h0080,\h0002>>, <<\h0000,\h8002>>,
  <<\h0000,\h0000>>, <<\h0000,\h0202>>, <<\h0000,\h8202>>, <<\h0080,\h0000>>,
  <<\h0000,\h8000>>, <<\h0080,\h8202>>, <<\h0000,\h0002>>, <<\h0080,\h8000>>,
  <<\h0080,\h8200>>, <<\h0080,\h0000>>, <<\h0080,\h0000>>, <<\h0000,\h0200>>,
  <<\h0080,\h8002>>, <<\h0000,\h8000>>, <<\h0000,\h8200>>, <<\h0080,\h0002>>,
  <<\h0000,\h0200>>, <<\h0000,\h0002>>, <<\h0080,\h0202>>, <<\h0000,\h8202>>,
  <<\h0080,\h8202>>, <<\h0000,\h8002>>, <<\h0080,\h8000>>, <<\h0080,\h0202>>,
  <<\h0080,\h0002>>, <<\h0000,\h0202>>, <<\h0000,\h8202>>, <<\h0080,\h8200>>,
  <<\h0000,\h0202>>, <<\h0080,\h0200>>, <<\h0080,\h0200>>, <<\h0000,\h0000>>,
  <<\h0000,\h8002>>, <<\h0000,\h8200>>, <<\h0000,\h0000>>, <<\h0080,\h8002>>
  >>

SP2 ==
  <<
  <<\h4008,\h4010>>, <<\h4000,\h4000>>, <<\h0000,\h4000>>, <<\h0008,\h4010>>,
  <<\h0008,\h0000>>, <<\h0000,\h0010>>, <<\h4008,\h0010>>, <<\h4000,\h4010>>,
  <<\h4000,\h0010>>, <<\h4008,\h4010>>, <<\h4008,\h4000>>, <<\h4000,\h0000>>,
  <<\h4000,\h4000>>, <<\h0008,\h0000>>, <<\h0000,\h0010>>, <<\h4008,\h0010>>,
  <<\h0008,\h4000>>, <<\h0008,\h0010>>, <<\h4000,\h4010>>, <<\h0000,\h0000>>,
  <<\h4000,\h0000>>, <<\h0000,\h4000>>, <<\h0008,\h4010>>, <<\h4008,\h0000>>,
  <<\h0008,\h0010>>, <<\h4000,\h0010>>, <<\h0000,\h0000>>, <<\h0008,\h4000>>,
  <<\h0000,\h4010>>, <<\h4008,\h4000>>, <<\h4008,\h0000>>, <<\h0000,\h4010>>,
  <<\h0000,\h0000>>, <<\h0008,\h4010>>, <<\h4008,\h0010>>, <<\h0008,\h0000>>,
  <<\h4000,\h4010>>, <<\h4008,\h0000>>, <<\h4008,\h4000>>, <<\h0000,\h4000>>,
  <<\h4008,\h0000>>, <<\h4000,\h4000>>, <<\h0000,\h0010>>, <<\h4008,\h4010>>,
  <<\h0008,\h4010>>, <<\h0000,\h0010>>, <<\h0000,\h4000>>, <<\h4000,\h0000>>,
  <<\h0000,\h4010>>, <<\h4008,\h4000>>, <<\h0008,\h0000>>, <<\h4000,\h0010>>,
  <<\h0008,\h0010>>, <<\h4000,\h4010>>, <<\h4000,\h0010>>, <<\h0008,\h0010>>,
  <<\h0008,\h4000>>, <<\h0000,\h0000>>, <<\h4000,\h4000>>, <<\h0000,\h4010>>,
  <<\h4000,\h0000>>, <<\h4008,\h0010>>, <<\h4008,\h4010>>, <<\h0008,\h4000>>
  >>

SP3 ==
  <<
  <<\h0000,\h0104>>, <<\h0401,\h0100>>, <<\h0000,\h0000>>, <<\h0401,\h0004>>,
  <<\h0400,\h0100>>, <<\h0000,\h0000>>, <<\h0001,\h0104>>, <<\h0400,\h0100>>,
  <<\h0001,\h0004>>, <<\h0400,\h0004>>, <<\h0400,\h0004>>, <<\h0001,\h0000>>,
  <<\h0401,\h0104>>, <<\h0001,\h0004>>, <<\h0401,\h0000>>, <<\h0000,\h0104>>,
  <<\h0400,\h0000>>, <<\h0000,\h0004>>, <<\h0401,\h0100>>, <<\h0000,\h0100>>,
  <<\h0001,\h0100>>, <<\h0401,\h0000>>, <<\h0401,\h0004>>, <<\h0001,\h0104>>,
  <<\h0400,\h0104>>, <<\h0001,\h0100>>, <<\h0001,\h0000>>, <<\h0400,\h0104>>,
  <<\h0000,\h0004>>, <<\h0401,\h0104>>, <<\h0000,\h0100>>, <<\h0400,\h0000>>,
  <<\h0401,\h0100>>, <<\h0400,\h0000>>, <<\h0001,\h0004>>, <<\h0000,\h0104>>,
  <<\h0001,\h0000>>, <<\h0401,\h0100>>, <<\h0400,\h0100>>, <<\h0000,\h0000>>,
  <<\h0000,\h0100>>, <<\h0001,\h0004>>, <<\h0401,\h0104>>, <<\h0400,\h0100>>,
  <<\h0400,\h0004>>, <<\h0000,\h0100>>, <<\h0000,\h0000>>, <<\h0401,\h0004>>,
  <<\h0400,\h0104>>, <<\h0001,\h0000>>, <<\h0400,\h0000>>, <<\h0401,\h0104>>,
  <<\h0000,\h0004>>, <<\h0001,\h0104>>, <<\h0001,\h0100>>, <<\h0400,\h0004>>,
  <<\h0401,\h0000>>, <<\h0400,\h0104>>, <<\h0000,\h0104>>, <<\h0401,\h0000>>,
  <<\h0001,\h0104>>, <<\h0000,\h0004>>, <<\h0401,\h0004>>, <<\h0001,\h0100>>
  >>

SP4 ==
  <<
  <<\h8040,\h1000>>, <<\h8000,\h1040>>, <<\h8000,\h1040>>, <<\h0000,\h0040>>,
  <<\h0040,\h1040>>, <<\h8040,\h0040>>, <<\h8040,\h0000>>, <<\h8000,\h1000>>,
  <<\h0000,\h0000>>, <<\h0040,\h1000>>, <<\h0040,\h1000>>, <<\h8040,\h1040>>,
  <<\h8000,\h0040>>, <<\h0000,\h0000>>, <<\h0040,\h0040>>, <<\h8040,\h0000>>,
  <<\h8000,\h0000>>, <<\h0000,\h1000>>, <<\h0040,\h0000>>, <<\h8040,\h1000>>,
  <<\h0000,\h0040>>, <<\h0040,\h0000>>, <<\h8000,\h1000>>, <<\h0000,\h1040>>,
  <<\h8040,\h0040>>, <<\h8000,\h0000>>, <<\h0000,\h1040>>, <<\h0040,\h0040>>,
  <<\h0000,\h1000>>, <<\h0040,\h1040>>, <<\h8040,\h1040>>, <<\h8000,\h0040>>,
  <<\h0040,\h0040>>, <<\h8040,\h0000>>, <<\h0040,\h1000>>, <<\h8040,\h1040>>,
  <<\h8000,\h0040>>, <<\h0000,\h0000>>, <<\h0000,\h0000>>, <<\h0040,\h1000>>,
  <<\h0000,\h1040>>, <<\h0040,\h0040>>, <<\h8040,\h0040>>, <<\h8000,\h0000>>,
  <<\h8040,\h1000>>, <<\h8000,\h1040>>, <<\h8000,\h1040>>, <<\h0000,\h0040>>,
  <<\h8040,\h1040>>, <<\h8000,\h0040>>, <<\h8000,\h0000>>, <<\h0000,\h1000>>,
  <<\h8040,\h0000>>, <<\h8000,\h1000>>, <<\h0040,\h1040>>, <<\h8040,\h0040>>,
  <<\h8000,\h1000>>, <<\h0000,\h1040>>, <<\h0040,\h0000>>, <<\h8040,\h1000>>,
  <<\h0000,\h0040>>, <<\h0040,\h0000>>, <<\h0000,\h1000>>, <<\h0040,\h1040>>
  >>

SP5 ==
  <<
  <<\h0000,\h0080>>, <<\h0104,\h0080>>, <<\h0104,\h0000>>, <<\h2100,\h0080>>,
  <<\h0004,\h0000>>, <<\h0000,\h0080>>, <<\h2000,\h0000>>, <<\h0104,\h0000>>,
  <<\h2004,\h0080>>, <<\h0004,\h0000>>, <<\h0100,\h0080>>, <<\h2004,\h0080>>,
  <<\h2100,\h0080>>, <<\h2104,\h0000>>, <<\h0004,\h0080>>, <<\h2000,\h0000>>,
  <<\h0100,\h0000>>, <<\h2004,\h0000>>, <<\h2004,\h0000>>, <<\h0000,\h0000>>,
  <<\h2000,\h0080>>, <<\h2104,\h0080>>, <<\h2104,\h0080>>, <<\h0100,\h0080>>,
  <<\h2104,\h0000>>, <<\h2000,\h0080>>, <<\h0000,\h0000>>, <<\h2100,\h0000>>,
  <<\h0104,\h0080>>, <<\h0100,\h0000>>, <<\h2100,\h0000>>, <<\h0004,\h0080>>,
  <<\h0004,\h0000>>, <<\h2100,\h0080>>, <<\h0000,\h0080>>, <<\h0100,\h0000>>,
  <<\h2000,\h0000>>, <<\h0104,\h0000>>, <<\h2100,\h0080>>, <<\h2004,\h0080>>,
  <<\h0100,\h0080>>, <<\h2000,\h0000>>, <<\h2104,\h0000>>, <<\h0104,\h0080>>,
  <<\h2004,\h0080>>, <<\h0000,\h0080>>, <<\h0100,\h0000>>, <<\h2104,\h0000>>,
  <<\h2104,\h0080>>, <<\h0004,\h0080>>, <<\h2100,\h0000>>, <<\h2104,\h0080>>,
  <<\h0104,\h0000>>, <<\h0000,\h0000>>, <<\h2004,\h0000>>, <<\h2100,\h0000>>,
  <<\h0004,\h0080>>, <<\h0100,\h0080>>, <<\h2000,\h0080>>, <<\h0004,\h0000>>,
  <<\h0000,\h0000>>, <<\h2004,\h0000>>, <<\h0104,\h0080>>, <<\h2000,\h0080>>
  >>

SP6 ==
  <<
  <<\h1000,\h0008>>, <<\h1020,\h0000>>, <<\h0000,\h2000>>, <<\h1020,\h2008>>,
  <<\h1020,\h0000>>, <<\h0000,\h0008>>, <<\h1020,\h2008>>, <<\h0020,\h0000>>,
  <<\h1000,\h2000>>, <<\h0020,\h2008>>, <<\h0020,\h0000>>, <<\h1000,\h0008>>,
  <<\h0020,\h0008>>, <<\h1000,\h2000>>, <<\h1000,\h0000>>, <<\h0000,\h2008>>,
  <<\h0000,\h0000>>, <<\h0020,\h0008>>, <<\h1000,\h2008>>, <<\h0000,\h2000>>,
  <<\h0020,\h2000>>, <<\h1000,\h2008>>, <<\h0000,\h0008>>, <<\h1020,\h0008>>,
  <<\h1020,\h0008>>, <<\h0000,\h0000>>, <<\h0020,\h2008>>, <<\h1020,\h2000>>,
  <<\h0000,\h2008>>, <<\h0020,\h2000>>, <<\h1020,\h2000>>, <<\h1000,\h0000>>,
  <<\h1000,\h2000>>, <<\h0000,\h0008>>, <<\h1020,\h0008>>, <<\h0020,\h2000>>,
  <<\h1020,\h2008>>, <<\h0020,\h0000>>, <<\h0000,\h2008>>, <<\h1000,\h0008>>,
  <<\h0020,\h0000>>, <<\h1000,\h2000>>, <<\h1000,\h0000>>, <<\h0000,\h2008>>,
  <<\h1000,\h0008>>, <<\h1020,\h2008>>, <<\h0020,\h2000>>, <<\h1020,\h0000>>,
  <<\h0020,\h2008>>, <<\h1020,\h2000>>, <<\h0000,\h0000>>, <<\h1020,\h0008>>,
  <<\h0000,\h0008>>, <<\h0000,\h2000>>, <<\h1020,\h0000>>, <<\h0020,\h2008>>,
  <<\h0000,\h2000>>, <<\h0020,\h0008>>, <<\h1000,\h2008>>, <<\h0000,\h0000>>,
  <<\h1020,\h2000>>, <<\h1000,\h0000>>, <<\h0020,\h0008>>, <<\h1000,\h2008>>
  >>

SP7 ==
  <<
  <<\h0010,\h0000>>, <<\h0210,\h0001>>, <<\h0200,\h0401>>, <<\h0000,\h0000>>,
  <<\h0000,\h0400>>, <<\h0200,\h0401>>, <<\h0010,\h0401>>, <<\h0210,\h0400>>,
  <<\h0210,\h0401>>, <<\h0010,\h0000>>, <<\h0000,\h0000>>, <<\h0200,\h0001>>,
  <<\h0000,\h0001>>, <<\h0200,\h0000>>, <<\h0210,\h0001>>, <<\h0000,\h0401>>,
  <<\h0200,\h0400>>, <<\h0010,\h0401>>, <<\h0010,\h0001>>, <<\h0200,\h0400>>,
  <<\h0200,\h0001>>, <<\h0210,\h0000>>, <<\h0210,\h0400>>, <<\h0010,\h0001>>,
  <<\h0210,\h0000>>, <<\h0000,\h0400>>, <<\h0000,\h0401>>, <<\h0210,\h0401>>,
  <<\h0010,\h0400>>, <<\h0000,\h0001>>, <<\h0200,\h0000>>, <<\h0010,\h0400>>,
  <<\h0200,\h0000>>, <<\h0010,\h0400>>, <<\h0010,\h0000>>, <<\h0200,\h0401>>,
  <<\h0200,\h0401>>, <<\h0210,\h0001>>, <<\h0210,\h0001>>, <<\h0000,\h0001>>,
  <<\h0010,\h0001>>, <<\h0200,\h0000>>, <<\h0200,\h0400>>, <<\h0010,\h0000>>,
  <<\h0210,\h0400>>, <<\h0000,\h0401>>, <<\h0010,\h0401>>, <<\h0210,\h0400>>,
  <<\h0000,\h0401>>, <<\h0200,\h0001>>, <<\h0210,\h0401>>, <<\h0210,\h0000>>,
  <<\h0010,\h0400>>, <<\h0000,\h0000>>, <<\h0000,\h0001>>, <<\h0210,\h0401>>,
  <<\h0000,\h0000>>, <<\h0010,\h0401>>, <<\h0210,\h0000>>, <<\h0000,\h0400>>,
  <<\h0200,\h0001>>, <<\h0200,\h0400>>, <<\h0000,\h0400>>, <<\h0010,\h0001>>
  >>

SP8 ==
  <<
  <<\h0800,\h0820>>, <<\h0000,\h0800>>, <<\h0002,\h0000>>, <<\h0802,\h0820>>,
  <<\h0800,\h0000>>, <<\h0800,\h0820>>, <<\h0000,\h0020>>, <<\h0800,\h0000>>,
  <<\h0002,\h0020>>, <<\h0802,\h0000>>, <<\h0802,\h0820>>, <<\h0002,\h0800>>,
  <<\h0802,\h0800>>, <<\h0002,\h0820>>, <<\h0000,\h0800>>, <<\h0000,\h0020>>,
  <<\h0802,\h0000>>, <<\h0800,\h0020>>, <<\h0800,\h0800>>, <<\h0000,\h0820>>,
  <<\h0002,\h0800>>, <<\h0002,\h0020>>, <<\h0802,\h0020>>, <<\h0802,\h0800>>,
  <<\h0000,\h0820>>, <<\h0000,\h0000>>, <<\h0000,\h0000>>, <<\h0802,\h0020>>,
  <<\h0800,\h0020>>, <<\h0800,\h0800>>, <<\h0002,\h0820>>, <<\h0002,\h0000>>,
  <<\h0002,\h0820>>, <<\h0002,\h0000>>, <<\h0802,\h0800>>, <<\h0000,\h0800>>,
  <<\h0000,\h0020>>, <<\h0802,\h0020>>, <<\h0000,\h0800>>, <<\h0002,\h0820>>,
  <<\h0800,\h0800>>, <<\h0000,\h0020>>, <<\h0800,\h0020>>, <<\h0802,\h0000>>,
  <<\h0802,\h0020>>, <<\h0800,\h0000>>, <<\h0002,\h0000>>, <<\h0800,\h0820>>,
  <<\h0000,\h0000>>, <<\h0802,\h0820>>, <<\h0002,\h0020>>, <<\h0800,\h0020>>,
  <<\h0802,\h0000>>, <<\h0800,\h0800>>, <<\h0800,\h0820>>, <<\h0000,\h0000>>,
  <<\h0802,\h0820>>, <<\h0002,\h0800>>, <<\h0002,\h0800>>, <<\h0000,\h0820>>,
  <<\h0000,\h0820>>, <<\h0002,\h0020>>, <<\h0800,\h0000>>, <<\h0802,\h0800>>
  >>

\* mutant: the second round rotates by 2
ROTATIONS_secondTwo == <<1,2,2,2,2,2,2,2,1,2,2,2,2,2,2,1>>

ROTATIONS == <<1,1,2,2,2,2,2,2,1,2,2,2,2,2,2,1>>

\* the SP tables as 32-bit words; SPWords[n][g + 1] is SPn[g]
SPWords ==
  Vec([n \in 1..8 |->
     LET t == <<SP1, SP2, SP3, SP4, SP5, SP6, SP7, SP8>>[n]
     IN  Vec([g \in 1..64 |-> Word32(t[g][1], t[g][2])])])

-----------------------------------------------------------------------------
(* DES core *)

ByteBits(b) == Bits(b, 8)

\* 8-byte block at index off (1-based) to the two 32-bit words [L, R]
bytesToLR(b, off) ==
  << ByteBits(b[off]) \o ByteBits(b[off + 1]) \o ByteBits(b[off + 2]) \o ByteBits(b[off + 3]),
     ByteBits(b[off + 4]) \o ByteBits(b[off + 5]) \o ByteBits(b[off + 6]) \o ByteBits(b[off + 7]) >>

\* (w >>> s) & 0xff for s = 24, 16, 8, 0
WordBytes(w) == Vec([k \in 1..4 |-> BitsValue(SubSeq(w, 8 * k - 7, 8 * k))])

\* two 32-bit words to 8 bytes
lrToBytes(L, R) == WordBytes(L) \o WordBytes(R)

M0F0F0F0F == Word32(\h0F0F, \h0F0F)
M0000FFFF == Word32(\h0000, \hFFFF)
M33333333 == Word32(\h3333, \h3333)
M00FF00FF == Word32(\h00FF, \h00FF)
M55555555 == Word32(\h5555, \h5555)

\* one line of a permutation, t = ((A >>> n) ^ B) & mask; B ^= t; A ^= (t << n),
\* is <<"LR", n, mask>> when A is L and B is R and <<"RL", n, mask>> when A is
\* R and B is L
DeltaSwap(LR, step) ==
  Only({ IF step[1] = "LR"
           THEN <<Xor(LR[1], Shl(t, step[2])), Xor(LR[2], t)>>
           ELSE <<Xor(LR[1], t), Xor(LR[2], Shl(t, step[2]))>> :
         t \in { IF step[1] = "LR"
                   THEN And(Xor(Shr(LR[1], step[2]), LR[2]), step[3])
                   ELSE And(Xor(Shr(LR[2], step[2]), LR[1]), step[3]) } })

RECURSIVE DeltaSwaps(_, _, _)
\* <<L, R>> after the lines steps[i], steps[i + 1], ...
DeltaSwaps(LR, steps, i) ==
  IF i > Len(steps) THEN LR
  ELSE Only({ DeltaSwaps(next, steps, i + 1) : next \in {DeltaSwap(LR, steps[i])} })

initialPerm(L, R) ==
  DeltaSwaps(<<L, R>>,
    << <<"LR", 4, M0F0F0F0F>>, <<"LR", 16, M0000FFFF>>, <<"RL", 2, M33333333>>,
       <<"RL", 8, M00FF00FF>>, <<"LR", 1, M55555555>> >>, 1)

finalPerm(L, R) ==
  DeltaSwaps(<<L, R>>,
    << <<"LR", 1, M55555555>>, <<"RL", 8, M00FF00FF>>, <<"RL", 2, M33333333>>,
       <<"LR", 16, M0000FFFF>>, <<"LR", 4, M0F0F0F0F>> >>, 1)

PC1_C == <<57,49,41,33,25,17,9,1,58,50,42,34,26,18,10,2,59,51,43,35,27,19,11,3,60,52,44,36>>
PC1_D == <<63,55,47,39,31,23,15,7,62,54,46,38,30,22,14,6,61,53,45,37,29,21,13,5,28,20,12,4>>

PC2 ==
  <<14,17,11,24, 1, 5, 3,28,15, 6,21,10,
    23,19,12, 4,26, 8,16, 7,27,20,13, 2,
    41,52,31,37,47,55,30,40,51,45,33,48,
    44,49,39,56,34,53,46,42,50,36,29,32>>

\* bit bit1based (1 = MSB of byte 0) of the 8-byte key k
getBit64(k, bit1based) ==
  LET byteIdx == (bit1based - 1) \div 8
      bitIdx  == 7 - ((bit1based - 1) % 8)
  IN  (k[byteIdx + 1] \div Pow2(bitIdx)) % 2

M0FFFFFFF == Word32(\h0FFF, \hFFFF)

\* ((C << r) | (C >>> (28 - r))) & 0x0FFFFFFF
Rot28(C, r) == And(Or(Shl(C, r), Shr(C, 28 - r)), M0FFFFFFF)

\* bit bit1based of the 56-bit CD: bits 1-28 from C, bits 29-56 from D
getBitCD(C, D, bit1based) ==
  IF bit1based <= 28 THEN BitAt(C, 28 - bit1based) ELSE BitAt(D, 56 - bit1based)

\* kHi (o = 0) or kLo (o = 24): the 24 bits PC2[o + 1 .. o + 24] picks from CD
SubKeyHalf(C, D, o) == Vec([i \in 1..24 |-> getBitCD(C, D, PC2[o + i])])

RECURSIVE SubKeyRounds(_, _, _)
\* the subkeys of rounds round..16 (1-based), C and D being the halves before
\* the round's rotation; a subkey is <<kHi, kLo>>, two 24-bit patterns
SubKeyRounds(C, D, round) ==
  IF round > 16 THEN <<>>
  ELSE Only({ << <<SubKeyHalf(cd[1], cd[2], 0), SubKeyHalf(cd[1], cd[2], 24)>> >>
              \o SubKeyRounds(cd[1], cd[2], round + 1) :
              cd \in { <<Rot28(C, ROTATIONS[round]), Rot28(D, ROTATIONS[round])>> } })

generateSubKeys(k) ==
  Only({ SubKeyRounds(cd[1], cd[2], 1) :
         cd \in { << <<0, 0, 0, 0>> \o Vec([i \in 1..28 |-> getBit64(key, PC1_C[i])]),
                     <<0, 0, 0, 0>> \o Vec([i \in 1..28 |-> getBit64(key, PC1_D[i])]) >> :
                  key \in {k} } })

\* the eight 6-bit groups of the expansion E of R, as index lists into R
\* (index 1 = bit 31): g0 = ((r & 1) << 5) | ((r >>> 27) & 0x1F), g1 = (r >>> 23) & 0x3F,
\* g2 = (r >>> 19) & 0x3F, ..., g6 = (r >>> 3) & 0x3F, g7 = ((r & 0x1F) << 1) | (r >>> 31)
ExpansionIdx ==
  << <<32, 1, 2, 3, 4, 5>>,       <<4, 5, 6, 7, 8, 9>>,
     <<8, 9, 10, 11, 12, 13>>,    <<12, 13, 14, 15, 16, 17>>,
     <<16, 17, 18, 19, 20, 21>>,  <<20, 21, 22, 23, 24, 25>>,
     <<24, 25, 26, 27, 28, 29>>,  <<28, 29, 30, 31, 32, 1>> >>

\* group n (0..7) of the subkey: K[0] >>> 18, (K[0] >>> 12) & 0x3F, (K[0] >>> 6) & 0x3F,
\* K[0] & 0x3F, then the same of K[1]
KeyGroup(K, n) ==
  LET half == K[(n \div 4) + 1]
      o    == 6 * (n % 4)
  IN  Vec([i \in 1..6 |-> half[o + i]])

\* g_n = (bits of R) ^ (bits of K), as the table index 0..63
desGroup(R, K, n) ==
  BitsValue(Xor(Vec([i \in 1..6 |-> R[ExpansionIdx[n + 1][i]]]), KeyGroup(K, n)))

desF(R, K) ==
  Only({ Vec([i \in 1..32 |->
            (s[1][i] + s[2][i] + s[3][i] + s[4][i] + s[5][i] + s[6][i] + s[7][i] + s[8][i]) % 2]) :
         s \in { Vec([n \in 1..8 |-> SPWords[n][desGroup(R, K, n - 1) + 1]]) } })

RECURSIVE Feistel(_, _, _, _)
\* the rounds using subKeys[order[i]], i = n..16: L, R := R, L ^ desF(R, subkey)
Feistel(LR, subKeys, order, n) ==
  IF n > 16 THEN LR
  ELSE Only({ Feistel(next, subKeys, order, n + 1) :
              next \in { <<LR[2], Xor(LR[1], desF(LR[2], subKeys[order[n]]))>> } })

EncryptOrder == Vec([i \in 1..16 |-> i])
DecryptOrder == Vec([i \in 1..16 |-> 17 - i])

\* Encrypt a single 8-byte block with DES ECB; the statements of the function
\* from the innermost set outwards
desBlock(blk, subKeys) ==
  Only({ lrToBytes(lr3[1], lr3[2]) :
    lr3 \in { finalPerm(lr2[2], lr2[1]) :
      lr2 \in { Feistel(lr1, sk, EncryptOrder, 1) :
        lr1 \in { initialPerm(lr0[1], lr0[2]) : lr0 \in {bytesToLR(blk, 1)} },
        sk \in {subKeys} } } })

\* mutant: decryption that takes the subkeys in encryption order
desDecryptBlock_forward(blk, subKeys) ==
  Only({ lrToBytes(lr3[1], lr3[2]) :
    lr3 \in { finalPerm(lr2[2], lr2[1]) :
      lr2 \in { Feistel(lr1, sk, EncryptOrder, 1) :
        lr1 \in { initialPerm(lr0[1], lr0[2]) : lr0 \in {bytesToLR(blk, 1)} },
        sk \in {subKeys} } } })

desDecryptBlock(blk, subKeys) ==
  Only({ lrToBytes(lr3[1], lr3[2]) :
    lr3 \in { finalPerm(lr2[2], lr2[1]) :
      lr2 \in { Feistel(lr1, sk, DecryptOrder, 1) :
        lr1 \in { initialPerm(lr0[1], lr0[2]) : lr0 \in {bytesToLR(blk, 1)} },
        sk \in {subKeys} } } })

\* (b & 0x7F) | (~t & 0x80), t the XOR-fold of b
msbParityByte(x) ==
  Only({ Only({ BitsValue(b) + 128 * (1 - t[1]) :
                t \in { Xor(t2, Shl(t2, 1)) :
                        t2 \in { Xor(t1, Shl(t1, 2)) :
                                 t1 \in { Xor(b, Shl(b, 4)) } } } }) :
         b \in { Bits(x % 128, 8) } })

msbParity(kb) == Vec([i \in 1..Len(kb) |-> msbParityByte(kb[i])])


-----------------------------------------------------------------------------
(* DES key & encryption: CBC chaining and the vendor padding *)

\* new Uint8Array(n)
Zeros(n) == Vec([i \in 1..n |-> 0])

ByteXor(a, b) == BitsValue(Xor(Bits(a, 8), Bits(b, 8)))

\* what encrypted.set(enc, i) raises when the block does not fit
RangeError == <<-3>>

RECURSIVE CbcLoop(_, _, _, _)
\* the for loop of encryptDES_CBC from offset i on: the blocks it stores in
\* encrypted, each of them also the next prevBlock
CbcLoop(d, subKeys, prevBlock, i) ==
  IF i < Len(d)
    THEN Only({ enc \o CbcLoop(d, subKeys, enc, i + 8) :
                enc \in { desBlock(Vec([j \in 1..8 |-> ByteXor(d[i + j], prevBlock[j])]),
                                   subKeys) } })
    ELSE <<>>

\* mutant: prevBlock is the caller's iv buffer itself, not a copy of it, so
\* the last cipher block is left in iv
encryptDES_CBC_aliasedIv(d, kb, iv) ==
  Only({ [encrypted |-> encrypted,
          iv        |-> IF encrypted = RangeError \/ encrypted = <<>>
                          THEN iv
                          ELSE SubSeq(encrypted, Len(encrypted) - 7, Len(encrypted))] :
         encrypted \in { IF Len(bytes) % 8 = 0 THEN CbcLoop(bytes, subKeys, iv, 0) ELSE RangeError :
                         bytes \in {d}, subKeys \in {generateSubKeys(msbParity(kb))} } })

\* encryptDES_CBC(data, keyBytes, iv): the bytes returned, and the contents of
\* the caller's iv buffer after the call.  prevBlock is new Uint8Array(iv), a
\* copy, so the chaining never writes to iv.  Every caller passes a whole
\* number of blocks; for another length encrypted.set raises.
encryptDES_CBC(d, kb, iv) ==
  Only({ [encrypted |-> encrypted, iv |-> iv] :
         encrypted \in { IF Len(bytes) % 8 = 0 THEN CbcLoop(bytes, subKeys, iv, 0) ELSE RangeError :
                         bytes \in {d}, subKeys \in {generateSubKeys(msbParity(kb))} } })

\* mutant: no block of padding is added to an aligned buffer
addYamahaPadding_noFullBlock(d) ==
  Only({ Only({ IF padded0 = <<>> THEN padded0
                ELSE [padded0 EXCEPT ![Len(padded0)] = Len(bytes) % 8] :
                padded0 \in { bytes \o Zeros((8 - (Len(bytes) % 8)) % 8) } }) :
         bytes \in {d} })

\* padLen is 8 when the remainder is 0; the last byte of the padding holds the
\* remainder, the others stay 0
addYamahaPadding(d) ==
  Only({ Only({ [padded0 EXCEPT ![Len(padded0)] = Len(bytes) % 8] :
                padded0 \in { bytes \o Zeros(IF Len(bytes) % 8 = 0 THEN 8
                                             ELSE 8 - (Len(bytes) % 8)) } }) :
         bytes \in {d} })

-----------------------------------------------------------------------------
(* Constants *)

DES_KEY          == <<\h46, \h6f, \h61, \h74, \h66, \h6b, \h69, \h6f>>  \* "Foatfkio"
DES_KEY_DUALSEAL == <<\h64, \h75, \h61, \h6C, \h73, \h65, \h61, \h6C>>  \* "dualseal"

XOR_SEED ==
  <<\h0F, \h62, \hBE, \h39, \hD1, \h70, \hC7, \hF4,
    \h1A, \h85, \h2D, \h5C, \h96, \hE8, \h4B, \hA3>>

EXPANSION_TABLE ==
  <<\h07, \h0C, \h0E, \h0A, \h0B, \h0D, \h00, \h01,
    \h06, \h02, \h0F, \h03, \h09, \h04, \h08, \h05,
    \h00, \h0F, \h02, \h08, \h06, \h09, \h01, \h0A,
    \h0E, \h0C, \h0B, \h03, \h04, \h05, \h07, \h0D,
    \h07, \h05, \h0C, \h04, \h0F, \h0D, \h01, \h09,
    \h08, \h0A, \h00, \h03, \h0B, \h06, \h0E, \h02>>

\* Standard CSEC encrypted authentication bytes (80 bytes)
CSEC_ENCRYPTED ==
  <<\h5a,\h51,\h7c,\h40,\h5f,\h44,\h7c,\h02,
    \h90,\h3b,\hcc,\h5e,\h1d,\h69,\hdc,\hf8,
    \h52,\h2f,\he8,\h75,\hd0,\hed,\h7f,\h97,
    \hf3,\hef,\h1e,\h23,\h6e,\h4f,\h9d,\h80,
    \h29,\h87,\h42,\h89,\had,\hdc,\hc3,\hc2,
    \h23,\hff,\ha3,\h65,\h55,\hc2,\h5d,\haf,
    \hf4,\h93,\h11,\h96,\hf1,\h4d,\ha7,\hd9,
    \h12,\he6,\h07,\hee,\h15,\hc0,\h45,\h24,
    \h26,\h58,\h5c,\h1f,\hb4,\h50,\h56,\he7,
    \h54,\hbc,\he9,\h49,\hf6,\hda,\hf0,\h55>>

-----------------------------------------------------------------------------
(* Device lock crypto *)

\* buf[i - 1] of the 128-byte buffer the first min(length, 128) bytes of b are set in
PadAt(b, i) == IF i <= Len(b) /\ i <= 128 THEN b[i] ELSE 0

\* mutant: the short-input fill reads XOR_SEED from its start, XOR_SEED[j], not
\* from XOR_SEED[length + j]
keyDerivationBytes_seedFromStart(src) ==
  Only({ IF Len(input) = 0 THEN Null
         ELSE IF Len(input) >= 16
           THEN Vec([i \in 1..16 |->
                  ByteXor(ByteXor(ByteXor(PadAt(input, i), PadAt(input, 16 + i)),
                                  ByteXor(PadAt(input, 32 + i), PadAt(input, 48 + i))),
                          ByteXor(ByteXor(PadAt(input, 64 + i), PadAt(input, 80 + i)),
                                  ByteXor(PadAt(input, 96 + i), PadAt(input, 112 + i))))])
           ELSE Vec([i \in 1..16 |->
                  IF i <= Len(input) THEN input[i]
                  ELSE ByteXor(XOR_SEED[i - Len(input)],
                               input[((i - 1 - Len(input)) % Len(input)) + 1])]) :
         input \in {src} })

\* keyDerivation on the bytes src (a Uint8Array argument, or the encoded
\* string); Null when src is empty
keyDerivationBytes(src) ==
  Only({ IF Len(input) = 0 THEN Null
         ELSE Only({ IF Len(input) >= 16
                       THEN Vec([i \in 1..16 |->
                              ByteXor(ByteXor(ByteXor(b[i], b[16 + i]), ByteXor(b[32 + i], b[48 + i])),
                                      ByteXor(ByteXor(b[64 + i], b[80 + i]), ByteXor(b[96 + i], b[112 + i])))])
                       ELSE Vec([i \in 1..16 |->
                              IF i <= Len(input) THEN input[i]
                              ELSE ByteXor(XOR_SEED[i], input[((i - 1 - Len(input)) % Len(input)) + 1])]) :
                     b \in { IF Len(input) > 128 THEN Slice(input, 0, 128)
                             ELSE input \o Zeros(128 - Len(input)) } }) :
         input \in {src} })

\* keyDerivation(inputString) for a string argument
keyDerivation(inputString) == keyDerivationBytes(textEncoder_encode(inputString))

\* expanded[r * 8 + j] = key16[EXPANSION_TABLE[2j + 16r]] ^ key16[EXPANSION_TABLE[2j + 1 + 16r]]
keyExpansion(key16) ==
  Only({ Vec([o \in 1..24 |->
                ByteXor(k[EXPANSION_TABLE[2 * ((o - 1) % 8) + ((o - 1) \div 8) * 16 + 1] + 1],
                        k[EXPANSION_TABLE[2 * ((o - 1) % 8) + 1 + ((o - 1) \div 8) * 16 + 1] + 1])]) :
         k \in {key16} })

RECURSIVE TripleCbcLoop(_, _, _, _)
\* the for loop of tripleDesEncryptCBC from offset i on, sk being <<sk1, sk2, sk3>>:
\* 3DES-EDE of each block, E_K3(D_K2(E_K1(block)))
TripleCbcLoop(d, sk, prev, i) ==
  IF i < Len(d)
    THEN Only({ step3 \o TripleCbcLoop(d, sk, step3, i + 8) :
           step3 \in { desBlock(step2, sk[3]) :
             step2 \in { desDecryptBlock(step1, sk[2]) :
               step1 \in { desBlock(Vec([j \in 1..8 |-> ByteXor(d[i + j], prev[j])]), sk[1]) } } } })
    ELSE <<>>

tripleDesEncryptCBC(d, key24) ==
  Only({ TripleCbcLoop(bytes, sk, Zeros(8), 0) :
         bytes \in {d},
         sk \in { << generateSubKeys(msbParity(Slice(k, 0, 8))),
                     generateSubKeys(msbParity(Slice(k, 8, 16))),
                     generateSubKeys(msbParity(Slice(k, 16, 24))) >> : k \in {key24} } })

\* mutant: byte j of the key slot is paired with byte j of firstData
SecondData_sameIndex(keySlot, first) ==
  Vec([j \in 1..16 |-> (keySlot[j] + first[j]) % 256])

\* secondData[j] = (keySlot[j] + firstData[15 - j]) & 0xFF
SecondData(keySlot, first) ==
  Vec([j \in 1..16 |-> (keySlot[j] + first[17 - j]) % 256])

\* mutant: the CSEC plaintext is the ABEI chunk alone, without the ABCF chunk
\* before it
generateLockedCSEC_noAbcf(devId, first, iv) ==
  Only({ IF keySlot = Null
           THEN [threw |-> TRUE, value |-> <<>>, DES_IV |-> iv,   \* 'Empty device key'
                 secondData |-> Undefined, airi |-> Undefined, aivf |-> Undefined]
           ELSE Only({ [threw |-> FALSE, value |-> r.csec.encrypted, DES_IV |-> r.csec.iv,
                        secondData |-> r.secondData, airi |-> r.airi.encrypted, aivf |-> r.aivf] :
                  r \in { [l EXCEPT !.csec =
                             encryptDES_CBC(
                               addYamahaPadding(concatArrays(<<
                                 buildChunk(ABEI, concatArrays(<<buildChunk(AIRI, l.airi.encrypted),
                                                                 buildChunk(AIVF, l.aivf)>>)) >>)),
                               DES_KEY, l.airi.iv)] :
                    l \in { [secondData |-> secondData, airi |-> airi, csec |-> <<>>,
                             aivf |-> tripleDesEncryptCBC(secondData, keyExpansion(keySlot))] :
                            secondData \in { SecondData(keySlot, first) },
                            airi \in { encryptDES_CBC(addYamahaPadding(first), DES_KEY_DUALSEAL, iv) } } } }) :
         keySlot \in {keyDerivation(devId)} })

\* generateLockedCSEC(deviceFullId), first being firstData, the 16 bytes that
\* crypto.getRandomValues draws and iv the contents of DES_IV at the call:
\* whether it threw, the bytes returned, DES_IV after the call, and the locals
\* secondData, airi and aivf as they stand at the return.
generateLockedCSEC(devId, first, iv) ==
  Only({ IF keySlot = Null
           THEN [threw |-> TRUE, value |-> <<>>, DES_IV |-> iv,   \* 'Empty device key'
                 secondData |-> Undefined, airi |-> Undefined, aivf |-> Undefined]
           ELSE Only({ [threw |-> FALSE, value |-> r.csec.encrypted, DES_IV |-> r.csec.iv,
                        secondData |-> r.secondData, airi |-> r.airi.encrypted, aivf |-> r.aivf] :
                  r \in { [l EXCEPT !.csec =
                             encryptDES_CBC(
                               addYamahaPadding(concatArrays(<<
                                 buildChunk(ABCF, <<\h00, \h01>>),
                                 buildChunk(ABEI, concatArrays(<<buildChunk(AIRI, l.airi.encrypted),
                                                                 buildChunk(AIVF, l.aivf)>>)) >>)),
                               DES_KEY, l.airi.iv)] :
                    l \in { [secondData |-> secondData, airi |-> airi, csec |-> <<>>,
                             aivf |-> tripleDesEncryptCBC(secondData, keyExpansion(keySlot))] :
                            secondData \in { SecondData(keySlot, first) },
                            airi \in { encryptDES_CBC(addYamahaPadding(first), DES_KEY_DUALSEAL, iv) } } } }) :
         keySlot \in {keyDerivation(devId)} })

-----------------------------------------------------------------------------
(* Encrypted CPI builder *)

\* the truth value JS gives a string, null or undefined in a condition
Truthy(v) == v # Undefined /\ v # Null /\ v # <<>>

\* the blobParts of one blob, wrapped as a BLOB container
BlobChunk(blob) ==
  buildContainerChunk(BLOB,
    << buildTextChunk(EUID, blob.uid),
       buildTextChunk(ETIT, blob.title),
       buildTextChunk(EEXT, blob.extension) >>
    \o (IF Truthy(blob.iconCode) THEN << buildTextChunk(EICO, blob.iconCode) >> ELSE <<>>)
    \o << buildChunk(FBIN, blob.binaryData) >>)

\* step 3 of buildEncryptedCPI: payloadRaw
PayloadRaw(pack) ==
  concatArrays(<< buildTextChunk(EUID, pack.uid), buildTextChunk(ETIT, pack.title) >>
               \o Vec([i \in 1..Len(pack.blobs) |-> BlobChunk(pack.blobs[i])]))

\* step 1 of buildEncryptedCPI: xpihChunk
XpihChunk(model, installId) ==
  LET xmdlChunk == buildTextChunk(XMDL, model)
      xpidData  == writeUint32BE(installId)
      xpidChunk == buildChunk(XPID, xpidData)
  IN  buildContainerChunk(XPIH, <<xmdlChunk, xpidChunk>>)

\* buildEncryptedCPI(packData, modelName, packInstallId, deviceFullId), with
\* the random draw and DES_IV as for generateLockedCSEC
buildEncryptedCPI(pack, model, installId, devId, first, iv) ==
  Only({ IF locked.threw THEN [threw |-> TRUE, value |-> <<>>, DES_IV |-> locked.DES_IV]
         ELSE Only({ [threw  |-> FALSE,
                      value  |-> concatArrays(<<XpihChunk(model, installId),
                                                buildChunk(CSEC, locked.value),
                                                payloadEncrypted.encrypted>>),
                      DES_IV |-> payloadEncrypted.iv] :
                payloadEncrypted \in
                  { encryptDES_CBC(addYamahaPadding(PayloadRaw(pack)), DES_KEY, locked.DES_IV) } }) :
         locked \in { IF Truthy(devId)
                        THEN generateLockedCSEC(devId, first, iv)
                        ELSE [threw |-> FALSE, value |-> CSEC_ENCRYPTED, DES_IV |-> iv] } })

-----------------------------------------------------------------------------
(* State of the module after loading, and of callers that have called nothing. *)

\* marks a result variable no call has written yet
NoResult == <<-9>>

\* const DES_IV = new Uint8Array(8)
ModuleInit == DES_IV = Zeros(8)

BaseBlock == <<\h01, \h23, \h45, \h67, \h89, \hAB, \hCD, \hEF>>
BaseKey   == <<\h13, \h34, \h57, \h79, \h9B, \hBC, \hDF, \hF1>>

\* the end-to-end scenario: pack P1 "Test" with one blob, model MODELX, install id 7
BaseBlob == [uid |-> <<66, 49>>, title |-> <<83, 49>>, extension |-> <<119, 97, 118>>,
             iconCode |-> Null, binaryData |-> <<1, 2, 3>>]
BasePack == [uid |-> <<80, 49>>, title |-> <<84, 101, 115, 116>>, blobs |-> <<BaseBlob>>]
BaseModel == <<77, 79, 68, 69, 76, 88>>
BaseInstallId == U32(7)

PadIdle  == data = <<>> /\ padded = NoResult
ScanIdle == /\ pieces = <<>> /\ buf = <<>> /\ startOffset = 0 /\ endOffset = NoOffset
            /\ pos = 0 /\ chunks = <<>> /\ pc = "idle"
DesIdle  == block = BaseBlock /\ keyBytes = BaseKey /\ cipher = NoResult /\ plain = NoResult
CpiIdle  == /\ packData = BasePack /\ modelName = BaseModel
            /\ packInstallId = BaseInstallId /\ deviceFullId = Undefined
            /\ firstData = NoResult /\ cpi = <<>> /\ parsed = <<>>
LockIdle == lockCalls = <<>>
KeyIdle  == kdInput = <<>> /\ kdOutput = NoResult
CallIdle == calls = <<>>

-----------------------------------------------------------------------------
(* addYamahaPadding called on buffers a caller fills byte by byte. *)

\* bound: the longest buffer padded
MaxPadLen == 9

PadByteSamples == {\h00, \hFF}

AppendData(b) ==
  /\ Len(data) < MaxPadLen
  /\ data' = Append(data, b)
  /\ padded' = NoResult
  /\ UNCHANGED <<scanVars, desVars, cpiVars, lockVars, keyVars, callVars, DES_IV>>

CallPadding ==
  /\ padded = NoResult
  /\ padded' = addYamahaPadding(data)
  /\ UNCHANGED <<data, scanVars, desVars, cpiVars, lockVars, keyVars, callVars, DES_IV>>

InitPad == PadIdle /\ ScanIdle /\ DesIdle /\ CpiIdle /\ LockIdle /\ KeyIdle /\ CallIdle /\ ModuleInit

NextPad ==
  \/ \E b \in PadByteSamples : AppendData(b)
  \/ CallPadding

SpecPad == InitPad /\ [][NextPad]_vars

\* C3: the padded sequence has a length that is a multiple of 8 and strictly
\* greater than L (L + 8 when L mod 8 = 0, otherwise L + 8 - (L mod 8)); its
\* first L bytes are the input, its last byte is L mod 8, and the other
\* appended bytes are zero.
C3_PaddingShape ==
  padded # NoResult =>
    LET L == Len(data) IN
      /\ Len(padded) % 8 = 0
      /\ Len(padded) > L
      /\ Len(padded) = (IF L % 8 = 0 THEN L + 8 ELSE L + 8 - (L % 8))
      /\ SubSeq(padded, 1, L) = data
      /\ padded[Len(padded)] = L % 8
      /\ \A i \in (L + 1)..(Len(padded) - 1) : padded[i] = 0

\* an aligned buffer (a full block of padding) and an unaligned one, both padded
C3_Witness ==
  /\ padded # NoResult
  /\ Len(data) = 8
  /\ Len(padded) = 16
  /\ \E i \in 1..8 : data[i] = \hFF

-----------------------------------------------------------------------------
(* The DES block cipher called on chosen blocks and keys. *)

\* bound: how many bytes of block and key together differ from the base pair
MaxDesEdits == 1

DesByteSamples == {\h00, \hFF, \h80, \h01}

DesEdits(b, k) ==
  Cardinality({i \in 1..8 : b[i] # BaseBlock[i]}) + Cardinality({i \in 1..8 : k[i] # BaseKey[i]})

SetBlockByte(i, v) ==
  /\ DesEdits([block EXCEPT ![i] = v], keyBytes) <= MaxDesEdits
  /\ block' = [block EXCEPT ![i] = v]
  /\ cipher' = NoResult /\ plain' = NoResult
  /\ UNCHANGED <<keyBytes, padVars, scanVars, cpiVars, lockVars, keyVars, callVars, DES_IV>>

SetKeyByte(i, v) ==
  /\ DesEdits(block, [keyBytes EXCEPT ![i] = v]) <= MaxDesEdits
  /\ keyBytes' = [keyBytes EXCEPT ![i] = v]
  /\ cipher' = NoResult /\ plain' = NoResult
  /\ UNCHANGED <<block, padVars, scanVars, cpiVars, lockVars, keyVars, callVars, DES_IV>>

\* cipher = desBlock(block, generateSubKeys(msbParity(keyBytes)))
EncryptBlock ==
  /\ cipher = NoResult
  /\ cipher' = desBlock(block, generateSubKeys(msbParity(keyBytes)))
  /\ UNCHANGED <<block, keyBytes, plain, padVars, scanVars, cpiVars, lockVars, keyVars, callVars, DES_IV>>

\* plain = desDecryptBlock(cipher, generateSubKeys(msbParity(keyBytes)))
DecryptBlock ==
  /\ cipher # NoResult /\ plain = NoResult
  /\ plain' = desDecryptBlock(cipher, generateSubKeys(msbParity(keyBytes)))
  /\ UNCHANGED <<block, keyBytes, cipher, padVars, scanVars, cpiVars, lockVars, keyVars, callVars, DES_IV>>

InitDES == PadIdle /\ ScanIdle /\ DesIdle /\ CpiIdle /\ LockIdle /\ KeyIdle /\ CallIdle /\ ModuleInit

NextDES ==
  \/ \E i \in 1..8, v \in DesByteSamples : SetBlockByte(i, v)
  \/ \E i \in 1..8, v \in DesByteSamples : SetKeyByte(i, v)
  \/ EncryptBlock
  \/ DecryptBlock

SpecDES == InitDES /\ [][NextDES]_vars

Reverse(s) == Vec([i \in 1..Len(s) |-> s[Len(s) + 1 - i]])

\* C6: decrypting the encrypted block under the same subkeys gives the block
\* back; decryption is the encryption pass with the 16 subkeys reversed; and
\* finalPerm undoes initialPerm.
C6_BlockRoundTrip ==
  LET sk == generateSubKeys(msbParity(keyBytes))
      lr == bytesToLR(block, 1)
      ip == initialPerm(lr[1], lr[2])
  IN  /\ plain # NoResult =>
           /\ plain = block
           /\ plain = desBlock(cipher, Reverse(sk))
      /\ finalPerm(ip[1], ip[2]) = lr

\* a block other than the base block went through encryption and decryption
C6_Witness ==
  /\ plain # NoResult
  /\ cipher # block
  /\ block # BaseBlock

KATCipher == <<\h85, \hE8, \h13, \h54, \h0F, \h0A, \hB4, \h05>>

\* C7: block 01 23 45 67 89 AB CD EF under key 13 34 57 79 9B BC DF F1
\* encrypts to 85 E8 13 54 0F 0A B4 05, by desBlock and by encryptDES_CBC with
\* the zero IV alike.
C7_KnownAnswer ==
  (block = BaseBlock /\ keyBytes = BaseKey /\ cipher # NoResult) =>
    /\ cipher = KATCipher
    /\ encryptDES_CBC(block, keyBytes, Zeros(8)).encrypted = KATCipher

C7_Witness == block = BaseBlock /\ keyBytes = BaseKey /\ cipher = KATCipher

-----------------------------------------------------------------------------
(* readChunks run one loop iteration at a time over buffers put together from
   records and filler bytes, for every window start <= end <= length. *)

\* bound: how many pieces a scanned buffer is put together from
MaxPieces == 2

\* a record with a recognized tag and no payload; with one payload byte; with
\* a declared length past the buffer (small and 2^32 - 1); a record whose tag
\* is not recognized; a filler byte
ScanPieces ==
  { EUID \o <<0, 0, 0, 0>>,
    FBIN \o <<0, 0, 0, 1, 7>>,
    ETIT \o <<0, 0, 0, 9, 7>>,
    BLOB \o <<\hFF, \hFF, \hFF, \hFF, 7>>,
    ABCF \o <<0, 0, 0, 1, 7>>,
    <<\h45>> }

AddPiece(piece) ==
  /\ pc = "idle"
  /\ Len(pieces) < MaxPieces
  /\ pieces' = Append(pieces, piece)
  /\ buf' = buf \o piece
  /\ UNCHANGED <<startOffset, endOffset, pos, chunks, pc>>
  /\ UNCHANGED <<padVars, desVars, cpiVars, lockVars, keyVars, callVars, DES_IV>>

\* readChunks(buf, s, e) up to the first test of the loop condition
ReadChunksCall(s, e) ==
  /\ pc = "idle"
  /\ startOffset' = s
  /\ endOffset' = e
  /\ pos' = s
  /\ chunks' = <<>>
  /\ pc' = IF s + 8 <= EndOf(buf, e) THEN "loop" ELSE "done"
  /\ UNCHANGED <<pieces, buf, padVars, desVars, cpiVars, lockVars, keyVars, callVars, DES_IV>>

\* one iteration of the while loop and the test that follows it
ReadChunksIterate ==
  /\ pc = "loop"
  /\ LET end == EndOf(buf, endOffset)
         s   == readChunksBody(buf, end, pos, chunks)
     IN  /\ pos' = s.pos
         /\ chunks' = s.chunks
         /\ pc' = IF ~s.brk /\ s.pos + 8 <= end THEN "loop" ELSE "done"
  /\ UNCHANGED <<pieces, buf, startOffset, endOffset>>
  /\ UNCHANGED <<padVars, desVars, cpiVars, lockVars, keyVars, callVars, DES_IV>>

InitScan == PadIdle /\ ScanIdle /\ DesIdle /\ CpiIdle /\ LockIdle /\ KeyIdle /\ CallIdle /\ ModuleInit

NextScan ==
  \/ \E piece \in ScanPieces : AddPiece(piece)
  \/ \E s \in 0..Len(buf) : \E e \in (s..Len(buf)) \cup {NoOffset} : ReadChunksCall(s, e)
  \/ ReadChunksIterate

SpecScan == InitScan /\ [][NextScan]_vars

\* the window end of the call in progress
ScanEnd == IF endOffset = NoOffset THEN Len(buf) ELSE endOffset

\* the declared length of the record at offset o, and where its payload ends
DeclaredLength(o) ==
  [hi |-> buf[o + 5] * 256 + buf[o + 6], lo |-> buf[o + 7] * 256 + buf[o + 8]]

PayloadEnd(o) ==
  LET n == DeclaredLength(o)
  IN  IF n.hi = 0 /\ n.lo <= ScanEnd - (o + 8) THEN o + 8 + n.lo ELSE ScanEnd

ChunkInWindow(c) ==
  /\ c.id \in KNOWN_TAGS
  /\ c.id = SubSeq(buf, c.offset + 1, c.offset + 4)
  /\ startOffset <= c.offset
  /\ c.offset + 8 <= ScanEnd
  /\ c.size = DeclaredLength(c.offset)
  /\ c.data = SubSeq(buf, c.offset + 9, PayloadEnd(c.offset))

ChunksInOrder ==
  \A i \in 1..(Len(chunks) - 1) : PayloadEnd(chunks[i].offset) <= chunks[i + 1].offset

\* C10: for every buffer and every start <= end <= length, readChunks raises
\* nothing and ends: each iteration moves the scan position strictly forward
\* and never past end (so at most end - start iterations run), also for a
\* declared length of 0 or far past the input;
\* every chunk returned has a recognized tag, its 8-byte header inside
\* [start, end) and as payload exactly the bytes from the header's end to
\* min(header end + declared length, end); chunks come in increasing offset
\* order and do not overlap.
C10_ScanSafe ==
  /\ [](pc # "idle" =>
          /\ startOffset <= pos /\ pos <= ScanEnd
          /\ \A i \in 1..Len(chunks) : ChunkInWindow(chunks[i])
          /\ ChunksInOrder)
  /\ [][pc = "loop" => pos' > pos /\ pos' <= ScanEnd /\ pc' \in {"loop", "done"}]_vars

\* a call over a window inside the buffer returned two chunks, one with no
\* payload and one whose declared length was clipped to the window
C10_Witness ==
  /\ pc = "done"
  /\ endOffset # NoOffset /\ endOffset < Len(buf)
  /\ Len(chunks) = 2
  /\ chunks[1].size = U32(0)
  /\ chunks[2].size.hi = \hFFFF
  /\ chunks[2].data = <<>>

-----------------------------------------------------------------------------
(* readChunks over a record A, a run G of filler bytes and a record B. *)

\* bound: the longest run of filler bytes between the two records
MaxGarbage == 3

\* the eleven tags of the decoder, the four tags written inside the CSEC
\* plaintext, and two other 4-byte sequences
FirstTags ==
  {XPFH, XPIH, XMDL, XPID, EUID, ETIT, BLOB, EEXT, EICO, FBIN, CSEC,
   ABCF, AIRI, AIVF, ABEI, <<101, 117, 105, 100>>, <<0, 0, 0, 0>>}

FirstRecords == {buildChunk(t, <<7>>) : t \in FirstTags} \cup {buildChunk(EUID, <<>>)}

\* 0x00 and the letters B, L, O
GarbageBytes == {\h00, \h42, \h4C, \h4F}

SecondRecords == {buildChunk(t, d) : t \in {EUID, BLOB, CSEC}, d \in {<<>>, <<7>>}}

PutFirst(a) ==
  /\ pc = "idle" /\ pieces = <<>>
  /\ pieces' = <<a, <<>>>>
  /\ buf' = a
  /\ UNCHANGED <<startOffset, endOffset, pos, chunks, pc>>
  /\ UNCHANGED <<padVars, desVars, cpiVars, lockVars, keyVars, callVars, DES_IV>>

PutGarbage(g) ==
  /\ pc = "idle" /\ Len(pieces) = 2
  /\ Len(pieces[2]) < MaxGarbage
  /\ pieces' = [pieces EXCEPT ![2] = Append(@, g)]
  /\ buf' = Append(buf, g)
  /\ UNCHANGED <<startOffset, endOffset, pos, chunks, pc>>
  /\ UNCHANGED <<padVars, desVars, cpiVars, lockVars, keyVars, callVars, DES_IV>>

PutSecond(b) ==
  /\ pc = "idle" /\ Len(pieces) = 2
  /\ pieces' = Append(pieces, b)
  /\ buf' = buf \o b
  /\ UNCHANGED <<startOffset, endOffset, pos, chunks, pc>>
  /\ UNCHANGED <<padVars, desVars, cpiVars, lockVars, keyVars, callVars, DES_IV>>

\* chunks = readChunks(buf, 0)
Decode ==
  /\ pc = "idle" /\ Len(pieces) >= 2
  /\ chunks' = readChunks(buf, 0, NoOffset)
  /\ pc' = "done"
  /\ UNCHANGED <<pieces, buf, startOffset, endOffset, pos>>
  /\ UNCHANGED <<padVars, desVars, cpiVars, lockVars, keyVars, callVars, DES_IV>>

InitResync == PadIdle /\ ScanIdle /\ DesIdle /\ CpiIdle /\ LockIdle /\ KeyIdle /\ CallIdle /\ ModuleInit

NextResync ==
  \/ \E a \in FirstRecords : PutFirst(a)
  \/ \E g \in GarbageBytes : PutGarbage(g)
  \/ \E b \in SecondRecords : PutSecond(b)
  \/ Decode

SpecResync == InitResync /\ [][NextResync]_vars

ElevenTags == {XPFH, XPIH, XMDL, XPID, EUID, ETIT, BLOB, EEXT, EICO, FBIN, CSEC}

FifteenTags == ElevenTags \cup {ABCF, AIRI, AIVF, ABEI}

\* tag, declared length and payload of each chunk, without its offset
Fields(cs) ==
  Vec([i \in 1..Len(cs) |-> [id |-> cs[i].id, size |-> cs[i].size, data |-> cs[i].data]])

\* the chunk a well-formed record stands for
RecordFields(r) ==
  [id |-> SubSeq(r, 1, 4), size |-> U32(Len(r) - 8), data |-> SubSeq(r, 9, Len(r))]

\* a tag of the set begins at offset k of the byte sequence
TagAt(bytes, k, tags) == k + 4 <= Len(bytes) /\ SubSeq(bytes, k + 1, k + 4) \in tags

\* G holds no 4-byte sequence equal to a recognized tag
GarbageHoldsNoTag(G) == \A k \in 0..(Len(G) - 1) : ~TagAt(G, k, ElevenTags)

\* no recognized tag begins at a byte of G, the bytes of B that follow counted in
NoTagBeginsInGarbage(G, B) == \A k \in 0..(Len(G) - 1) : ~TagAt(G \o B, k, ElevenTags)

ThreePiecesDecoded ==
  pc = "done" /\ Len(pieces) = 3 /\ SubSeq(pieces[1], 1, 4) \in ElevenTags

\* C5 as amended: for valid chunks A and B and filler G such that no
\* recognized tag begins at any byte of G (the first bytes of B counted in),
\* readChunks over A ++ G ++ B returns the chunks of A ++ B: A, then B,
\* with the same tags, declared lengths and payloads.
C5_Resync ==
  (ThreePiecesDecoded /\ NoTagBeginsInGarbage(pieces[2], pieces[3])) =>
     /\ Fields(chunks) = Fields(readChunks(pieces[1] \o pieces[3], 0, NoOffset))
     /\ Fields(chunks) = <<RecordFields(pieces[1]), RecordFields(pieces[3])>>

\* three filler bytes were skipped between two records
C5_Witness ==
  /\ ThreePiecesDecoded
  /\ Len(pieces[2]) = 3
  /\ NoTagBeginsInGarbage(pieces[2], pieces[3])
  /\ Len(chunks) = 2
  /\ chunks[2].offset = Len(pieces[1]) + 3

\* C5 as claimed: G holding no 4-byte sequence equal to a recognized tag is
\* enough for A ++ G ++ B to decode as A ++ B does.
C5_AnyCleanGarbage ==
  (ThreePiecesDecoded /\ GarbageHoldsNoTag(pieces[2])) =>
     Fields(chunks) = Fields(readChunks(pieces[1] \o pieces[3], 0, NoOffset))

\* the chunk returned at offset 0 is the first record
FirstReturned ==
  chunks # <<>> /\ chunks[1].offset = 0 /\ Fields(chunks)[1] = RecordFields(pieces[1])

\* the bytes of the first record were passed over: no chunk begins in them
FirstSkipped == \A i \in 1..Len(chunks) : chunks[i].offset >= Len(pieces[1])

\* C9 as amended: the decoder recognizes exactly the eleven tags XPFH, XPIH,
\* XMDL, XPID, EUID, ETIT, BLOB, EEXT, EICO, FBIN, CSEC: readChunks returns
\* a chunk for a well-formed record carrying one of them and passes over a
\* record carrying any other 4-byte sequence, ABCF, AIRI, AIVF and ABEI
\* included, as filler.
C9_ElevenTags ==
  pc = "done" =>
    IF SubSeq(pieces[1], 1, 4) \in ElevenTags THEN FirstReturned ELSE FirstSkipped

\* a record tagged ABCF was passed over and the record after it returned
C9_Witness ==
  /\ pc = "done" /\ Len(pieces) = 3
  /\ SubSeq(pieces[1], 1, 4) = ABCF
  /\ pieces[2] = <<>>
  /\ Fields(chunks) = <<RecordFields(pieces[3])>>

\* C9 as claimed: the recognized tags are the fifteen, so that a record
\* carrying ABCF, AIRI, AIVF or ABEI is returned as a chunk too.
C9_FifteenTags ==
  pc = "done" =>
    IF SubSeq(pieces[1], 1, 4) \in FifteenTags THEN FirstReturned ELSE FirstSkipped

-----------------------------------------------------------------------------
(* buildEncryptedCPI called on packs near the end-to-end scenario, and
   parsePPFRaw called on the plaintext payload of the pack behind a header. *)

\* bound: how many inputs differ from the end-to-end scenario
MaxCpiEdits == 1

\* "", "A\0B", U+FEFF "A", "é€" followed by U+1F600, "BLOB", and "A"
\* followed by the surrogate U+D800 standing alone
TextSamples ==
  { <<>>, <<65, 0, 66>>, <<\hFEFF, 65>>, <<233, 8364, 128512>>, BLOB, <<65, \hD800>> }

IconSamples == { <<>>, <<105, 49>> }

BinarySamples == { <<>>, FBIN \o <<0, 0, 0, 1, 0>> }

\* a second blob, with an icon code
SecondBlob == [uid |-> <<66, 50>>, title |-> <<83, 50>>, extension |-> <<109, 105, 100>>,
               iconCode |-> <<105, 50>>, binaryData |-> <<\hFF, 0>>]

BaseBlobs == <<BaseBlob, SecondBlob>>

ModelSamples == { <<>>, <<233>> }

\* 0, 0xFFFFFFFF and 0x01020304
InstallIdSamples == { [hi |-> 0, lo |-> 0], [hi |-> \hFFFF, lo |-> \hFFFF], [hi |-> \h0102, lo |-> \h0304] }

\* "", "ABC" and an identifier of 17 characters
DeviceSamples ==
  { <<>>, <<65, 66, 67>>,
    <<89, 65, 77, 65, 72, 65, 45, 48, 49, 50, 51, 52, 53, 54, 55, 56, 57>> }

\* what crypto.getRandomValues may put in firstData
RandSamples ==
  { Zeros(16), <<\h01, \h23, \h45, \h67, \h89, \hAB, \hCD, \hEF,
                 \hFE, \hDC, \hBA, \h98, \h76, \h54, \h32, \h10>> }

Differs(a, b) == IF a = b THEN 0 ELSE 1

BlobEdits(blob, base) ==
  Differs(blob.uid, base.uid) + Differs(blob.title, base.title)
  + Differs(blob.extension, base.extension) + Differs(blob.iconCode, base.iconCode)
  + Differs(blob.binaryData, base.binaryData)

RECURSIVE BlobsEdits(_, _)
BlobsEdits(blobs, i) ==
  IF i > Len(blobs) THEN 0 ELSE BlobEdits(blobs[i], BaseBlobs[i]) + BlobsEdits(blobs, i + 1)

CpiEdits(pack, model, installId, devId) ==
  Differs(pack.uid, BasePack.uid) + Differs(pack.title, BasePack.title)
  + Differs(Len(pack.blobs), 1) + BlobsEdits(pack.blobs, 1)
  + Differs(model, BaseModel) + Differs(installId, BaseInstallId) + Differs(devId, Undefined)

\* cpi and parsed hold the value returned once the call was made
NothingBuilt == cpi = <<>> /\ parsed = <<>>

SetPack(pack) ==
  /\ NothingBuilt
  /\ pack # packData
  /\ CpiEdits(pack, modelName, packInstallId, deviceFullId) <= MaxCpiEdits
  /\ packData' = pack
  /\ UNCHANGED <<modelName, packInstallId, deviceFullId, firstData, cpi, parsed>>
  /\ UNCHANGED <<padVars, scanVars, desVars, lockVars, keyVars, callVars, DES_IV>>

SetPackText(field, t) == SetPack([packData EXCEPT ![field] = t])

SetBlobField(i, field, v) ==
  /\ i <= Len(packData.blobs)
  /\ SetPack([packData EXCEPT !.blobs[i][field] = v])

AddBlob ==
  /\ Len(packData.blobs) = 1
  /\ SetPack([packData EXCEPT !.blobs = Append(@, SecondBlob)])

RemoveBlob ==
  /\ Len(packData.blobs) = 1
  /\ SetPack([packData EXCEPT !.blobs = <<>>])

SetModelName(t) ==
  /\ NothingBuilt
  /\ CpiEdits(packData, t, packInstallId, deviceFullId) <= MaxCpiEdits
  /\ modelName' = t
  /\ UNCHANGED <<packData, packInstallId, deviceFullId, firstData, cpi, parsed>>
  /\ UNCHANGED <<padVars, scanVars, desVars, lockVars, keyVars, callVars, DES_IV>>

SetInstallId(n) ==
  /\ NothingBuilt
  /\ CpiEdits(packData, modelName, n, deviceFullId) <= MaxCpiEdits
  /\ packInstallId' = n
  /\ UNCHANGED <<packData, modelName, deviceFullId, firstData, cpi, parsed>>
  /\ UNCHANGED <<padVars, scanVars, desVars, lockVars, keyVars, callVars, DES_IV>>

SetDevice(d) ==
  /\ NothingBuilt
  /\ CpiEdits(packData, modelName, packInstallId, d) <= MaxCpiEdits
  /\ deviceFullId' = d
  /\ UNCHANGED <<packData, modelName, packInstallId, firstData, cpi, parsed>>
  /\ UNCHANGED <<padVars, scanVars, desVars, lockVars, keyVars, callVars, DES_IV>>

\* cpi = buildEncryptedCPI(packData, modelName, packInstallId, deviceFullId);
\* firstData is drawn only on the device-locked path
Build ==
  /\ cpi = <<>>
  /\ \E r \in (IF Truthy(deviceFullId) THEN RandSamples ELSE {firstData}) :
       \E out \in {buildEncryptedCPI(packData, modelName, packInstallId, deviceFullId, r, DES_IV)} :
         /\ firstData' = r
         /\ cpi' = <<[threw |-> out.threw, value |-> out.value]>>
         /\ DES_IV' = out.DES_IV
  /\ UNCHANGED <<packData, modelName, packInstallId, deviceFullId, parsed>>
  /\ UNCHANGED <<padVars, scanVars, desVars, lockVars, keyVars, callVars>>

\* the 8 bytes at the head of a file, which parsePPFRaw does not look at
FileHeader == XPFH \o <<0, 0, 0, 0>>

\* parsed = parsePPFRaw(header ++ payloadRaw), payloadRaw as Build serialized it
Parse ==
  /\ cpi # <<>> /\ parsed = <<>>
  /\ parsed' = <<parsePPFRaw(FileHeader \o PayloadRaw(packData))>>
  /\ UNCHANGED <<packData, modelName, packInstallId, deviceFullId, firstData, cpi>>
  /\ UNCHANGED <<padVars, scanVars, desVars, lockVars, keyVars, callVars, DES_IV>>

InitCPI == PadIdle /\ ScanIdle /\ DesIdle /\ CpiIdle /\ LockIdle /\ KeyIdle /\ CallIdle /\ ModuleInit

NextCPI ==
  \/ \E field \in {"uid", "title"}, t \in TextSamples : SetPackText(field, t)
  \/ \E i \in 1..2, field \in {"uid", "title", "extension"}, t \in TextSamples :
       SetBlobField(i, field, t)
  \/ \E i \in 1..2, v \in IconSamples \cup {Null} : SetBlobField(i, "iconCode", v)
  \/ \E i \in 1..2, v \in BinarySamples : SetBlobField(i, "binaryData", v)
  \/ AddBlob
  \/ RemoveBlob
  \/ \E t \in ModelSamples : SetModelName(t)
  \/ \E n \in InstallIdSamples : SetInstallId(n)
  \/ \E d \in DeviceSamples : SetDevice(d)
  \/ Build
  \/ Parse

SpecCPI == InitCPI /\ [][NextCPI]_vars

\* the four bytes of a length n < 2^31, most significant first
Be32(n) == <<(n \div 16777216) % 256, (n \div 65536) % 256, (n \div 256) % 256, n % 256>>

RECURSIVE Utf8Len(_)
\* how many bytes of UTF-8 the string takes
Utf8Len(t) ==
  IF t = <<>> THEN 0
  ELSE (IF Head(t) < 128 THEN 1 ELSE IF Head(t) < 2048 THEN 2 ELSE IF Head(t) < 65536 THEN 3 ELSE 4)
       + Utf8Len(Tail(t))

\* header, text and terminator
TextChunkLen(t) == 8 + Utf8Len(t) + 1

BlobChunkLen(blob) ==
  8 + TextChunkLen(blob.uid) + TextChunkLen(blob.title) + TextChunkLen(blob.extension)
    + (IF blob.iconCode = Null \/ blob.iconCode = <<>> THEN 0 ELSE TextChunkLen(blob.iconCode))
    + 8 + Len(blob.binaryData)

RECURSIVE BlobsLen(_, _)
BlobsLen(blobs, i) ==
  IF i > Len(blobs) THEN 0 ELSE BlobChunkLen(blobs[i]) + BlobsLen(blobs, i + 1)

\* L: EUID, ETIT, then one BLOB container per blob
PlaintextLen(pack) == TextChunkLen(pack.uid) + TextChunkLen(pack.title) + BlobsLen(pack.blobs, 1)

\* the XPIH chunk as the layout states it
ExpectedXpih ==
  LET name == textEncoder_encode(modelName) \o <<0>>
      xmdl == XMDL \o Be32(Len(name)) \o name
      xpid == XPID \o <<0, 0, 0, 4>>
                   \o <<packInstallId.hi \div 256, packInstallId.hi % 256,
                        packInstallId.lo \div 256, packInstallId.lo % 256>>
  IN  XPIH \o Be32(Len(xmdl) + Len(xpid)) \o xmdl \o xpid

\* C1: for a device identifier that is absent or not empty, buildEncryptedCPI
\* returns three pieces and nothing else: the XPIH chunk holding the XMDL
\* text chunk and the XPID chunk of 4 big-endian bytes; a CSEC chunk whose
\* length field is 80 and whose payload is 80 bytes; and a ciphertext of
\* 8 * ceil((L + 1) / 8) bytes, L the length of the serialized payload.
C1_Layout ==
  (cpi # <<>> /\ deviceFullId # <<>>) =>
    LET out == cpi[1].value
        h   == Len(ExpectedXpih)
        L   == PlaintextLen(packData)
    IN  /\ ~cpi[1].threw
        /\ SubSeq(out, 1, h) = ExpectedXpih
        /\ SubSeq(out, h + 1, h + 8) = CSEC \o <<0, 0, 0, 80>>
        /\ L = Len(PayloadRaw(packData))
        /\ Len(out) = h + 8 + 80 + 8 * ((L + 8) \div 8)

\* a device-locked container was built with a random draw other than zero
C1_Witness ==
  /\ cpi # <<>> /\ ~cpi[1].threw
  /\ deviceFullId = <<65, 66, 67>>
  /\ firstData # NoResult /\ firstData # Zeros(16)
  /\ Len(cpi[1].value) = Len(ExpectedXpih) + 88 + 80

\* the payload of the CSEC chunk of the container built
CsecPayload == SubSeq(cpi[1].value, Len(ExpectedXpih) + 9, Len(ExpectedXpih) + 88)

\* C2: the CSEC path is chosen by the presence of the identifier alone: with
\* no identifier the CSEC payload is the constant 80-byte blob; with an
\* identifier, generateLockedCSEC is called, so that the empty string ends
\* in the empty-identifier error and no container is returned.
C2_PresenceSelectsPath ==
  cpi # <<>> =>
    IF deviceFullId = Undefined
      THEN ~cpi[1].threw /\ CsecPayload = CSEC_ENCRYPTED
    ELSE IF deviceFullId = <<>>
      THEN cpi[1].threw
    ELSE /\ ~cpi[1].threw
         /\ CsecPayload = generateLockedCSEC(deviceFullId, firstData, Zeros(8)).value

\* no U+0000, no surrogate standing alone, no U+FEFF in front
CleanText(t) ==
  /\ \A i \in 1..Len(t) : t[i] # 0 /\ ~(t[i] >= \hD800 /\ t[i] < \hE000)
  /\ (t = <<>> \/ t[1] # \hFEFF)

CleanBlob(blob) ==
  /\ CleanText(blob.uid) /\ CleanText(blob.title) /\ CleanText(blob.extension)
  /\ (blob.iconCode = Null \/ (blob.iconCode # <<>> /\ CleanText(blob.iconCode)))

CleanPack(pack) ==
  /\ CleanText(pack.uid) /\ CleanText(pack.title)
  /\ \A i \in 1..Len(pack.blobs) : CleanBlob(pack.blobs[i])

\* C4 as amended: for a Pack whose strings are well-formed, hold no U+0000
\* and do not begin with U+FEFF, and whose icon codes are null or not empty,
\* parsePPFRaw of the payload serialized behind the 8-byte header is the
\* Pack, field by field and blob by blob in order.
C4_RoundTrip ==
  (parsed # <<>> /\ CleanPack(packData)) => parsed[1] = packData

\* a pack of two blobs, the second with an icon code, came back whole
C4_Witness ==
  /\ parsed # <<>>
  /\ Len(packData.blobs) = 2
  /\ packData.blobs[2].iconCode = <<105, 50>>
  /\ parsed[1] = packData

\* C4 as claimed: every Pack, any strings and any icon code, comes back equal.
C4_AnyPack ==
  parsed # <<>> => parsed[1] = packData

-----------------------------------------------------------------------------
(* generateLockedCSEC called again and again in one page: the calls share the
   module's DES_IV buffer, and each draws its own firstData. *)

\* bound: how many calls are made
MaxLockCalls == 3

\* one call: its identifier, its draw, the key material it derived and what
\* it returned, appended to the log of the calls made so far
CallLocked(d, r) ==
  /\ Len(lockCalls) < MaxLockCalls
  /\ \E out \in {generateLockedCSEC(d, r, DES_IV)} :
       /\ lockCalls' = Append(lockCalls,
            [id |-> d, firstData |-> r, threw |-> out.threw, value |-> out.value,
             keySlot |-> keyDerivation(d),
             key24   |-> IF out.threw THEN Null ELSE keyExpansion(keyDerivation(d)),
             secondData |-> out.secondData, airi |-> out.airi, aivf |-> out.aivf])
       /\ DES_IV' = out.DES_IV
  /\ UNCHANGED <<padVars, scanVars, desVars, cpiVars, keyVars, callVars>>

InitLock == PadIdle /\ ScanIdle /\ DesIdle /\ CpiIdle /\ LockIdle /\ KeyIdle /\ CallIdle /\ ModuleInit

NextLock == \E d \in DeviceSamples, r \in RandSamples : CallLocked(d, r)

SpecLock == InitLock /\ [][NextLock]_vars

\* C8: whatever calls came before, two calls with the same identifier derive
\* the same key slot and the same 24-byte key, and two calls with the same
\* identifier and the same draw return the same 80 bytes (or both raise).
C8_LockDeterminism ==
  \A i, j \in 1..Len(lockCalls) :
    lockCalls[i].id = lockCalls[j].id =>
      /\ lockCalls[i].keySlot = lockCalls[j].keySlot
      /\ lockCalls[i].key24 = lockCalls[j].key24
      /\ lockCalls[i].threw = lockCalls[j].threw
      /\ (~lockCalls[i].threw => Len(lockCalls[i].value) = 80)
      /\ (lockCalls[i].firstData = lockCalls[j].firstData =>
            lockCalls[i].value = lockCalls[j].value)

\* the same identifier was locked three times, twice with the same draw and
\* once with another, and only the other draw changed the bytes
C8_Witness ==
  /\ Len(lockCalls) = 3
  /\ lockCalls[1].id = <<65, 66, 67>> /\ lockCalls[2].id = <<65, 66, 67>>
  /\ lockCalls[3].id = <<65, 66, 67>>
  /\ lockCalls[1].firstData # lockCalls[2].firstData
  /\ lockCalls[1].firstData = lockCalls[3].firstData
  /\ lockCalls[1].value # lockCalls[2].value
  /\ lockCalls[1].value = lockCalls[3].value
  /\ Len(lockCalls[3].value) = 80

-----------------------------------------------------------------------------
(* keyDerivation called on byte buffers of every length up to past the 128   *)
(* bytes it reads.                                                           *)

\* bound: the longest buffer a key is derived from
MaxKeyLen == 130

\* bound: how many bytes of the buffer differ from the caller's pattern
MaxKeyEdits == 1

\* the byte the caller writes at offset o
KeyPatternByte(o) == (37 * o + 11) % 256

\* the offsets the caller overwrites, and the bytes it overwrites them with
KeyEditOffsets == {0, 5, 15, 16, 20, 127, 128, 129}
KeyByteSamples == {\h00, \hFF}

KeyEdits(b) == Cardinality({i \in 1..Len(b) : b[i] # KeyPatternByte(i - 1)})

\* the caller appends the next byte of its pattern
GrowKeyInput ==
  /\ Len(kdInput) < MaxKeyLen
  /\ kdInput' = Append(kdInput, KeyPatternByte(Len(kdInput)))
  /\ kdOutput' = NoResult
  /\ UNCHANGED <<padVars, scanVars, desVars, cpiVars, lockVars, callVars, DES_IV>>

\* the caller overwrites one byte
SetKeyInputByte(o, v) ==
  /\ o < Len(kdInput)
  /\ kdInput[o + 1] # v
  /\ KeyEdits([kdInput EXCEPT ![o + 1] = v]) <= MaxKeyEdits
  /\ kdInput' = [kdInput EXCEPT ![o + 1] = v]
  /\ kdOutput' = NoResult
  /\ UNCHANGED <<padVars, scanVars, desVars, cpiVars, lockVars, callVars, DES_IV>>

\* kdOutput = keyDerivation(kdInput), kdInput a Uint8Array
DeriveKey ==
  /\ kdOutput = NoResult
  /\ kdOutput' = keyDerivationBytes(kdInput)
  /\ UNCHANGED <<kdInput, padVars, scanVars, desVars, cpiVars, lockVars, callVars, DES_IV>>

InitKey == PadIdle /\ ScanIdle /\ DesIdle /\ CpiIdle /\ LockIdle /\ KeyIdle /\ CallIdle /\ ModuleInit

NextKey ==
  \/ GrowKeyInput
  \/ \E o \in KeyEditOffsets, v \in KeyByteSamples : SetKeyInputByte(o, v)
  \/ DeriveKey

SpecKey == InitKey /\ [][NextKey]_vars

RECURSIVE XorOf(_, _)
\* a ^ b of two non-negative integers, bit by bit from the lowest
XorOf(a, b) ==
  IF a = 0 THEN b
  ELSE IF b = 0 THEN a
  ELSE (((a % 2) + (b % 2)) % 2) + 2 * XorOf(a \div 2, b \div 2)

\* byte o (0-based) of the input zero-padded to 128 bytes and truncated at 128 bytes
Padded128(o) == IF o < Len(kdInput) /\ o < 128 THEN kdInput[o + 1] ELSE 0

RECURSIVE SliceXor(_, _)
\* the XOR of bytes i, i + 16, ..., i + 16 * (k - 1) of the padded input
SliceXor(i, k) == IF k = 0 THEN 0 ELSE XorOf(SliceXor(i, k - 1), Padded128(i + 16 * (k - 1)))

\* C11: keyDerivation returns no key material exactly when its input is empty
\* and 16 bytes otherwise.  For n >= 16 input bytes, output byte i is the XOR
\* of bytes i, i + 16, ..., i + 112 of the input zero-padded to 128 bytes and
\* truncated at 128 bytes, so an input of exactly 16 bytes comes back
\* unchanged.  For 1 <= n < 16, output bytes 0..n-1 are the input bytes and
\* output byte n + j is XOR_SEED[n + j] XOR input[j mod n].
C11_KeyDerivation ==
  kdOutput # NoResult =>
    LET n == Len(kdInput) IN
    /\ (kdOutput = Null) <=> (n = 0)
    /\ n > 0 =>
         /\ Len(kdOutput) = 16
         /\ n >= 16 => \A i \in 0..15 : kdOutput[i + 1] = SliceXor(i, 8)
         /\ n = 16 => kdOutput = kdInput
         /\ n < 16 =>
              /\ \A i \in 0..(n - 1) : kdOutput[i + 1] = kdInput[i + 1]
              /\ \A j \in 0..(15 - n) :
                   kdOutput[n + j + 1] = XorOf(XOR_SEED[n + j + 1], kdInput[(j % n) + 1])

\* a key was derived from 130 bytes of which the last, past the 128th, was
\* overwritten
C11_Witness ==
  /\ kdOutput # NoResult /\ kdOutput # Null
  /\ Len(kdInput) = 130
  /\ kdInput[130] = \hFF

-----------------------------------------------------------------------------
(* The two blocks a device-locked CSEC holds, over the calls of SpecLock. *)

\* the subkeys of the 8 key bytes at offset o of key24
SubKeysAt(key24, o) == generateSubKeys(msbParity(SubSeq(key24, o + 1, o + 8)))

\* E_K3(D_K2(E_K1(blk))), sk being the subkeys of K1, K2 and K3
Ede(blk, sk) == desBlock(desDecryptBlock(desBlock(blk, sk[1]), sk[2]), sk[3])

BlockXor(a, b) == Vec([i \in 1..8 |-> XorOf(a[i], b[i])])

\* the two blocks of s under Triple-DES EDE with the three 8-byte keys of
\* key24, chained from the zero IV
EdeCbcOfTwoBlocks(s, key24) ==
  Only({ Only({ c1 \o Ede(BlockXor(SubSeq(s, 9, 16), c1), sk) :
                c1 \in { Ede(BlockXor(SubSeq(s, 1, 8), Zeros(8)), sk) } }) :
         sk \in { <<SubKeysAt(key24, 0), SubKeysAt(key24, 8), SubKeysAt(key24, 16)>> } })

\* the three blocks of p under DES-CBC with the 8 key bytes kb and the zero IV
DesCbcOfThreeBlocks(p, kb) ==
  Only({ Only({ c.c1 \o c.c2 \o desBlock(BlockXor(SubSeq(p, 17, 24), c.c2), sk) :
                c \in { [c1 |-> c1, c2 |-> desBlock(BlockXor(SubSeq(p, 9, 16), c1), sk)] :
                        c1 \in { desBlock(BlockXor(SubSeq(p, 1, 8), Zeros(8)), sk) } } }) :
         sk \in { generateSubKeys(msbParity(kb)) } })

\* C12: in the generateLockedCSEC call made last (every call is the last one
\* of some state), when it derived a key slot, the second block is secondData[j] = (keySlot[j] + firstData[15 - j]) mod 256 for j in
\* 0..15, every byte in 0..255; AIVF is that block, unpadded, under
\* Triple-DES EDE (encrypt, decrypt, encrypt; CBC from the zero IV) with the key
\* keyExpansion(keySlot), 16 bytes; AIRI is the vendor-padded first block
\* under the fixed key "dualseal", 24 bytes.
C12_SecondBlock ==
  lockCalls # <<>> =>
    LET c == lockCalls[Len(lockCalls)] IN
    ~c.threw =>
      /\ Len(c.secondData) = 16
      /\ \A j \in 0..15 :
           /\ c.secondData[j + 1] = (c.keySlot[j + 1] + c.firstData[15 - j + 1]) % 256
           /\ c.secondData[j + 1] \in 0..255
      /\ Len(c.aivf) = 16
      /\ c.aivf = EdeCbcOfTwoBlocks(c.secondData, keyExpansion(c.keySlot))
      /\ Len(c.airi) = 24
      \* the vendor padding of 16 bytes is a block of eight bytes, the last
      \* holding 16 mod 8 = 0
      /\ c.airi = DesCbcOfThreeBlocks(c.firstData \o <<0, 0, 0, 0, 0, 0, 0, 0>>, DES_KEY_DUALSEAL)

\* a call whose draw is no palindrome and where one of the sixteen sums passes
\* 255, so that the index reversal and the reduction mod 256 both show
C12_Witness ==
  \E n \in 1..Len(lockCalls) :
    LET c == lockCalls[n] IN
    /\ ~c.threw
    /\ \E j \in 0..15 : c.keySlot[j + 1] + c.firstData[15 - j + 1] > 255
    /\ \E j \in 0..15 : c.secondData[j + 1] # (c.keySlot[j + 1] + c.firstData[j + 1]) % 256
    /\ Len(c.aivf) = 16 /\ Len(c.airi) = 24

-----------------------------------------------------------------------------
(* The head of a device-locked CSEC, over the calls of SpecLock. *)

\* the first 24 bytes of every CSEC plaintext: ABCF with length 2 and the
\* version 00 01, ABEI with length 56, AIRI and the first two bytes of its
\* length 24
CsecPlaintextHead ==
  ABCF \o <<0, 0, 0, 2>> \o <<\h00, \h01>> \o ABEI \o <<0, 0, 0, 56>> \o AIRI \o <<0, 0>>

\* its three cipher blocks under the outer key "Foatfkio" and the zero IV
CsecHead == DesCbcOfThreeBlocks(CsecPlaintextHead, DES_KEY)

\* C14: the first 24 bytes of every device-locked CSEC blob are the same for
\* all identifiers and all draws: they are the three cipher blocks of the
\* fixed 24-byte head of the plaintext under the fixed outer key and the zero
\* IV, so the identifier and the draw show only in bytes 24..79.
C14_FixedHead ==
  \A n \in 1..Len(lockCalls) :
    ~lockCalls[n].threw =>
      /\ Len(lockCalls[n].value) = 80
      /\ SubSeq(lockCalls[n].value, 1, 24) = CsecHead
      /\ \A m \in 1..Len(lockCalls) :
           ~lockCalls[m].threw =>
             SubSeq(lockCalls[m].value, 1, 24) = SubSeq(lockCalls[n].value, 1, 24)

\* two calls with different identifiers and different draws returned blobs
\* that differ, and differ only from byte 24 on
C14_Witness ==
  \E n, m \in 1..Len(lockCalls) :
    /\ ~lockCalls[n].threw /\ ~lockCalls[m].threw
    /\ lockCalls[n].id # lockCalls[m].id
    /\ lockCalls[n].firstData # lockCalls[m].firstData
    /\ SubSeq(lockCalls[n].value, 25, 80) # SubSeq(lockCalls[m].value, 25, 80)
    /\ SubSeq(lockCalls[n].value, 1, 24) = SubSeq(lockCalls[m].value, 1, 24)

-----------------------------------------------------------------------------
(* A page calling parsePPFRaw, buildEncryptedCPI and generateLockedCSEC in   *)
(* any order on the scenario pack, all calls sharing the module's DES_IV.    *)

\* bound: how many calls the page makes
MaxCalls == 3

\* "ABC"
CallDevice == <<65, 66, 67>>

\* parsePPFRaw(header ++ payloadRaw)
CallParse ==
  /\ Len(calls) < MaxCalls
  /\ calls' = Append(calls,
       [op |-> "parsePPFRaw", id |-> Undefined, firstData |-> NoResult, threw |-> FALSE,
        value |-> parsePPFRaw(FileHeader \o PayloadRaw(packData))])
  /\ UNCHANGED <<padVars, scanVars, desVars, cpiVars, lockVars, keyVars, DES_IV>>

\* buildEncryptedCPI(packData, modelName, packInstallId, d); r is drawn only
\* on the device-locked path
CallBuild(d, r) ==
  /\ Len(calls) < MaxCalls
  /\ \E out \in {buildEncryptedCPI(packData, modelName, packInstallId, d, r, DES_IV)} :
       /\ calls' = Append(calls,
            [op |-> "buildEncryptedCPI", id |-> d, firstData |-> r, threw |-> out.threw,
             value |-> out.value])
       /\ DES_IV' = out.DES_IV
  /\ UNCHANGED <<padVars, scanVars, desVars, cpiVars, lockVars, keyVars>>

\* generateLockedCSEC(d)
CallLock(d, r) ==
  /\ Len(calls) < MaxCalls
  /\ \E out \in {generateLockedCSEC(d, r, DES_IV)} :
       /\ calls' = Append(calls,
            [op |-> "generateLockedCSEC", id |-> d, firstData |-> r, threw |-> out.threw,
             value |-> out.value])
       /\ DES_IV' = out.DES_IV
  /\ UNCHANGED <<padVars, scanVars, desVars, cpiVars, lockVars, keyVars>>

InitCalls == PadIdle /\ ScanIdle /\ DesIdle /\ CpiIdle /\ LockIdle /\ KeyIdle /\ CallIdle /\ ModuleInit

NextCalls ==
  \/ CallParse
  \/ CallBuild(Undefined, NoResult)
  \/ CallBuild(CallDevice, Zeros(16))
  \/ \E r \in RandSamples : CallLock(CallDevice, r)

SpecCalls == InitCalls /\ [][NextCalls]_vars

\* what the unlocked conversion of the scenario returns in a page that has
\* called nothing before
FirstUnlockedCpi ==
  buildEncryptedCPI(BasePack, BaseModel, BaseInstallId, Undefined, NoResult, Zeros(8)).value

\* C13: after any sequence of parsePPFRaw, buildEncryptedCPI (locked or
\* unlocked) and generateLockedCSEC calls the module's DES_IV is still all
\* zero, CBC chaining having worked on a copy of it, and an unlocked
\* conversion returns the bytes it returns in a fresh page, whatever calls
\* came before it.
C13_NoSharedState ==
  /\ DES_IV = Zeros(8)
  /\ \A n \in 1..Len(calls) :
       (calls[n].op = "buildEncryptedCPI" /\ ~Truthy(calls[n].id)) =>
         /\ ~calls[n].threw
         /\ calls[n].value = FirstUnlockedCpi

\* an unlocked conversion made after a generateLockedCSEC call and a
\* device-locked conversion
C13_Witness ==
  /\ Len(calls) = 3
  /\ calls[1].op = "generateLockedCSEC" /\ ~calls[1].threw
  /\ calls[2].op = "buildEncryptedCPI" /\ calls[2].id = CallDevice /\ ~calls[2].threw
  /\ calls[3].op = "buildEncryptedCPI" /\ calls[3].id = Undefined
  /\ calls[3].value # calls[2].value

=============================================================================
